---- MODULE Spec2Model ----
(***************************************************************************)
(* A model of the brukeropus OPUS file decoder: the type-code decoder, the *)
(* directory scan, the per-block parse dispatch, the data/status pairing   *)
(* engine and the file assemblers.                                         *)
(***************************************************************************)
EXTENDS Integers, Sequences, FiniteSets, TLC

VARIABLES
    pc,          \* position of the operation under study
    type_int,    \* get_block_type: the int32 read from the directory
    block_type,  \* get_block_type: the six-integer tuple returned
    dir_region,  \* the file's bytes from the header's directory offset to its end
    max_blocks,  \* header field read by parse_header
    dir_blocks,  \* what parse_directory returned (or the exception it raised)
    block_list,  \* pair_data_and_status_blocks: the list of FileBlock passed in
    single_matches, \* pair_data_and_status_blocks: its outcome
    file,        \* the file on disk that is decoded
    filebytes,   \* what read_opus_file_bytes returned
    directory,   \* FileDirectory(filebytes): its lists, or the exception raised
    opus,        \* OPUSFile(filepath): its attributes, or the exception raised
    truthy,      \* bool(opusfile)
    args,        \* the arguments of the function under study
    result       \* what that function returned (or the exception it raised)

typeVars == <<type_int, block_type>>
dirVars == <<dir_region, max_blocks, dir_blocks>>
pairVars == <<block_list, single_matches>>
decodeVars == <<file, filebytes, directory, opus, truthy>>
callVars == <<args, result>>
vars == <<pc, typeVars, dirVars, pairVars, decodeVars, callVars>>

\* the variables of the operations a specification does not exercise
NoType == type_int = "None" /\ block_type = "None"
NoDir == dir_region = "None" /\ max_blocks = "None" /\ dir_blocks = "None"
NoPair == block_list = "None" /\ single_matches = "None"
NoDecode ==
    file = "None" /\ filebytes = "None" /\ directory = "None" /\ opus = "None" /\ truthy = "None"

NoCall == args = "None" /\ result = "None"

None == "None"

\* the outcome of a call: the value returned, or the exception raised
Ok(v) == [exc |-> None, val |-> v]
Raise(e) == [exc |-> e, val |-> <<>>]

\* ------------------------------------------------------------------------
\* Generic helpers (Python built-ins used by the source)
\* ------------------------------------------------------------------------

Pow2(n) == 2 ^ n

Abs(n) == IF n < 0 THEN -n ELSE n

MinOf(a, b) == IF a < b THEN a ELSE b

MaxOf(a, b) == IF a > b THEN a ELSE b

\* s[lo:hi] of Python for 0 <= lo, hi (indices counted from the front)
PySlice(s, lo, hi) ==
    LET h == MinOf(hi, Len(s))
    IN IF lo >= h THEN <<>> ELSE SubSeq(s, lo + 1, h)

\* s[-a:-b] of Python for a > b >= 0 (b = 0 stands for an open end, s[-a:])
PySliceFromEnd(s, a, b) ==
    PySlice(s, MaxOf(Len(s) - a, 0), Len(s) - b)

RECURSIVE BinDigits(_)
\* the binary digits of a natural number, most significant first
BinDigits(n) ==
    IF n < 2 THEN <<IF n = 1 THEN "1" ELSE "0">>
    ELSE Append(BinDigits(n \div 2), IF n % 2 = 1 THEN "1" ELSE "0")

RECURSIVE Zeros(_)
Zeros(n) == IF n <= 0 THEN <<>> ELSE <<"0">> \o Zeros(n - 1)

\* ------------------------------------------------------------------------
\* parse.py: get_block_type
\* ------------------------------------------------------------------------

FormatWidth == 34

\* format(type_int, '#034b'): sign, "0b", zero padding to 34 characters, digits
FormatBin(n) ==
    LET sign   == IF n < 0 THEN <<"-">> ELSE <<>>
        digits == BinDigits(Abs(n))
        pad    == FormatWidth - Len(sign) - 2 - Len(digits)
    IN sign \o <<"0", "b">> \o Zeros(pad) \o digits

RECURSIVE BinValue(_)
BinValue(s) ==
    IF s = <<>> THEN 0
    ELSE 2 * BinValue(SubSeq(s, 1, Len(s) - 1)) + (IF s[Len(s)] = "1" THEN 1 ELSE 0)

\* int(s, 2); an empty string or a character that is no binary digit makes
\* Python raise ValueError
IntBase2(s) ==
    IF s = <<>> \/ \E i \in 1..Len(s) : s[i] \notin {"0", "1"}
    THEN "ValueError"
    ELSE BinValue(s)

get_block_type(n) ==
    LET type_bit_str == FormatBin(n)
    IN << IntBase2(PySliceFromEnd(type_bit_str, 2, 0)),
          IntBase2(PySliceFromEnd(type_bit_str, 4, 2)),
          IntBase2(PySliceFromEnd(type_bit_str, 10, 4)),
          IntBase2(PySliceFromEnd(type_bit_str, 17, 10)),
          IntBase2(PySliceFromEnd(type_bit_str, 19, 17)),
          IntBase2(PySliceFromEnd(type_bit_str, 22, 19)) >>

\* ------------------------------------------------------------------------
\* Specification SpecType: get_block_type applied to directory type codes
\* ------------------------------------------------------------------------

MaxField == 2
MaxHigh == 1

\* bit widths and offsets of the six fields, least significant first
FieldWidth == <<2, 2, 6, 7, 2, 3>>
FieldOffset == <<0, 2, 4, 10, 17, 19>>

FieldSamples(i) ==
    {v \in 0..MaxField : v < Pow2(FieldWidth[i])} \cup {Pow2(FieldWidth[i]) - 1}

PackFields(f) ==
    f[1] * Pow2(FieldOffset[1]) + f[2] * Pow2(FieldOffset[2])
  + f[3] * Pow2(FieldOffset[3]) + f[4] * Pow2(FieldOffset[4])
  + f[5] * Pow2(FieldOffset[5]) + f[6] * Pow2(FieldOffset[6])

\* int32 values as struct.unpack('<i') delivers them: the six fields, some
\* bits above bit 21, and either sign
TypeInts ==
    { s * (PackFields(<<a, b, c, d, e, f>>) + h * Pow2(22)) :
        a \in FieldSamples(1), b \in FieldSamples(2), c \in FieldSamples(3),
        d \in FieldSamples(4), e \in FieldSamples(5), f \in FieldSamples(6),
        h \in 0..MaxHigh, s \in {1, -1} }

InitType ==
    /\ pc = "type_call"
    /\ type_int \in TypeInts
    /\ block_type = None
    /\ NoDir /\ NoPair /\ NoDecode /\ NoCall

GetBlockType ==
    /\ pc = "type_call"
    /\ block_type' = get_block_type(type_int)
    /\ pc' = "type_done"
    /\ UNCHANGED <<type_int, dirVars, pairVars, decodeVars, callVars>>

NextType == GetBlockType

SpecType == InitType /\ [][NextType]_vars

\* the low 22 bits of the 32-bit two's-complement representation of n
Low22(n) == n % Pow2(22)

\* C8: for every int32 typeInt, negative ones included, get_block_type
\* returns six fields within their bit widths whose re-packing at offsets
\* 0, 2, 4, 10, 17, 19 is the low 22 bits of typeInt's 32-bit representation.
C8_RoundTrip ==
    pc = "type_done" =>
        /\ \A i \in 1..6 : block_type[i] \in 0..(Pow2(FieldWidth[i]) - 1)
        /\ PackFields(block_type) = Low22(type_int)

\* the same statement restricted to the non-negative type codes
C8_RoundTripNonNegative ==
    (pc = "type_done" /\ type_int >= 0) =>
        /\ \A i \in 1..6 : block_type[i] \in 0..(Pow2(FieldWidth[i]) - 1)
        /\ PackFields(block_type) = Low22(type_int)

\* ------------------------------------------------------------------------
\* parse.py: parse_directory, and its call in directory.py
\* ------------------------------------------------------------------------

\* struct.calcsize('<3i'): the bytes of one directory entry
EntryBytes == 12

StructError == "struct.error"

\* A byte buffer holding directory entries is kept as the entries that lie
\* completely in it and the number of bytes (fewer than 12) that follow them.
BufferLen(bb) == EntryBytes * Len(bb.entries) + bb.tail

\* filebytes[self.start: self.start + size] with size = max_blocks * 3 * 4
DirectorySlice(region, maxb) ==
    LET size  == maxb * 3 * 4
        n     == MinOf(MaxOf(size, 0), BufferLen(region))
        whole == n \div EntryBytes
    IN [entries |-> SubSeq(region.entries, 1, whole), tail |-> n % EntryBytes]

RECURSIVE ScanDirectory(_, _, _)
\* the while loop of parse_directory from position loc with blocks collected
ScanDirectory(bb, loc, blocks) ==
    IF loc < BufferLen(bb)
    THEN IF BufferLen(bb) - loc < EntryBytes
         THEN Raise(StructError)  \* struct.unpack_from needs 12 bytes at loc
         ELSE LET e == bb.entries[(loc \div EntryBytes) + 1]
              IN IF e.start > 0
                 THEN ScanDirectory(bb, loc + 12,
                          Append(blocks, <<get_block_type(e.type_int), e.size_int * 4, e.start>>))
                 ELSE Ok(blocks)
    ELSE Ok(blocks)

parse_directory(bb) == ScanDirectory(bb, 0, <<>>)

\* ------------------------------------------------------------------------
\* Specification SpecDir: the directory scan of FileDirectory.__init__
\* ------------------------------------------------------------------------

MaxEntries == 3

\* type codes of a data block (3,1,0,1,0,0) and of its data status block
DirTypeInts == {1031, 1047}

DirEntrySet == [type_int : DirTypeInts, size_int : {0, 2}, start : {-1, 0, 24}]

SeqsUpTo(S, n) == UNION {[1..k -> S] : k \in 0..n}

InitDir ==
    /\ pc = "dir_call"
    /\ dir_region \in [entries : SeqsUpTo(DirEntrySet, MaxEntries), tail : {0, 5, 11}]
    /\ max_blocks \in 0..(MaxEntries + 1)
    /\ dir_blocks = None
    /\ NoType /\ NoPair /\ NoDecode /\ NoCall

ScanFileDirectory ==
    /\ pc = "dir_call"
    /\ dir_blocks' = parse_directory(DirectorySlice(dir_region, max_blocks))
    /\ pc' = "dir_done"
    /\ UNCHANGED <<dir_region, max_blocks, typeVars, pairVars, decodeVars, callVars>>

NextDir == ScanFileDirectory

SpecDir == InitDir /\ [][NextDir]_vars

\* the block info of a directory entry
BlockInfo(e) == <<get_block_type(e.type_int), e.size_int * 4, e.start>>

\* the complete entries of the file's directory, at most max_blocks of them
WholeEntries == SubSeq(dir_region.entries, 1, MinOf(max_blocks, Len(dir_region.entries)))

\* the number of entries before the first one with start <= 0
RECURSIVE LeadingUsed(_)
LeadingUsed(es) ==
    IF es = <<>> \/ es[1].start <= 0 THEN 0 ELSE 1 + LeadingUsed(Tail(es))

ExpectedBlocks ==
    [i \in 1..LeadingUsed(WholeEntries) |-> BlockInfo(WholeEntries[i])]

\* the slice handed to parse_directory ends inside an entry that the scan reaches
TruncatedMidEntry ==
    /\ DirectorySlice(dir_region, max_blocks).tail > 0
    /\ LeadingUsed(WholeEntries) = Len(WholeEntries)

\* C9: directory parsing never throws on a short buffer: for a slice of any
\* length, also one ending in the middle of a 12-byte entry, parse_directory
\* stops and returns the entries read completely so far.
C9_NeverThrows ==
    pc = "dir_done" =>
        /\ dir_blocks.exc = None
        /\ Len(dir_blocks.val) <= Len(WholeEntries)
        /\ \A i \in 1..Len(dir_blocks.val) : dir_blocks.val[i] = BlockInfo(WholeEntries[i])

\* C10: the scan returns, in directory order, exactly the entries before the
\* first entry with start <= 0, at most max_blocks of them, each with
\* size = sizeWords * 4; nothing after the first sentinel is returned.
C10_ScanResult ==
    pc = "dir_done" => dir_blocks = Ok(ExpectedBlocks)

\* what the code does: the scan result is as C9 and C10 say unless the slice
\* ends inside an entry the scan reaches, and then struct.error is raised
DirScanOutcome ==
    pc = "dir_done" =>
        dir_blocks = (IF TruncatedMidEntry THEN Raise(StructError) ELSE Ok(ExpectedBlocks))

\* ------------------------------------------------------------------------
\* block.py: FileBlock and its classifier predicates
\* ------------------------------------------------------------------------

\* A FileBlock is a record with the fields
\*   type, size, start : as read from the directory
\*   kind  : the Python type of .data ("none", "dict", "array", "series", ...)
\*   arr   : .data of a parsed 1-D data block (a numpy array), else << >>
\*   has, val : .data of a parsed parameter block, a dict: the keys it has and
\*           their values (0 for a key it does not have)
\*   parse_error : None, or the exception the block's parser raised
\* self.type[i], with the source's index from 0
T(b, i) == b.type[i + 1]

\* the parameters of a data status block that the decoder reads
ParamKeys == {"npt", "csf", "mny", "mxy", "fxv", "lxv", "dpf"}

NoVal == [k \in ParamKeys |-> 0]

is_data_status(b) == T(b, 2) = 1

is_rf_param(b) == T(b, 2) > 1 /\ T(b, 1) = 2

is_param(b) == T(b, 2) > 0 \/ b.type = <<0, 0, 0, 0, 0, 1>>

is_sm_param(b) == is_param(b) /\ ~is_data_status(b) /\ ~is_rf_param(b)

is_directory(b) == b.type = <<0, 0, 0, 13, 0, 0>>

is_file_log(b) == b.type = <<0, 0, 0, 0, 0, 5>>

is_report(b) ==
    \/ b.type \in {<<0, 0, 0, 0, 0, 2>>, <<0, 0, 0, 0, 0, 3>>, <<0, 0, 0, 0, 0, 4>>}
    \/ (T(b, 2) = 0 /\ T(b, 3) \notin {0, 13} /\ T(b, 5) = 5)

\* a variant that does not look at type[5]
is_data_any(b) == T(b, 2) = 0 /\ T(b, 3) \notin {0, 13}

is_data(b) == T(b, 2) = 0 /\ T(b, 3) \notin {0, 13} /\ T(b, 5) \notin {2, 5}

is_data_series(b) == T(b, 2) = 0 /\ T(b, 3) \notin {0, 13} /\ T(b, 5) = 2

is_compact_data(b) == is_data(b) /\ T(b, 5) = 4

\* ------------------------------------------------------------------------
\* block.py: the pairing engine
\* ------------------------------------------------------------------------

KeyError == "KeyError"

RECURSIVE SeqMin(_)
SeqMin(a) == IF Len(a) = 1 THEN a[1] ELSE MinOf(a[1], SeqMin(Tail(a)))

RECURSIVE SeqMax(_)
SeqMax(a) == IF Len(a) = 1 THEN a[1] ELSE MaxOf(a[1], SeqMax(Tail(a)))

\* csf * data: numpy's elementwise product
Scale(c, a) == [i \in 1..Len(a) |-> c * a[i]]

\* [x for x in s if P(x)]
Filter(s, P(_)) == SelectSeq(s, P)

\* a variant that does not compare type[0] and type[1]
is_data_status_type_match_tail(data_block, data_status_block) ==
    PySlice(data_status_block.type, 3, 6) = PySlice(data_block.type, 3, 6)

is_data_status_type_match(data_block, data_status_block) ==
    LET t1 == data_status_block.type
        t2 == data_block.type
    IN PySlice(t1, 0, 2) = PySlice(t2, 0, 2) /\ PySlice(t1, 3, 6) = PySlice(t2, 3, 6)

\* a variant that compares the unscaled samples with mny and mxy
is_data_status_val_match_unscaled(data_block, data_status_block) ==
    IF is_data(data_block)
    THEN LET ds == data_status_block
         IN IF "npt" \notin ds.has THEN TRUE
            ELSE IF Len(data_block.arr) < ds.val["npt"] THEN FALSE
            ELSE LET y == PySlice(data_block.arr, 0, ds.val["npt"])
                 IN IF y = <<>> THEN TRUE
                    ELSE SeqMin(y) = ds.val["mny"] /\ SeqMax(y) = ds.val["mxy"]
    ELSE TRUE

\* a variant that rules a candidate out when the check raises
is_data_status_val_match_strict(data_block, data_status_block) ==
    IF is_data(data_block)
    THEN LET ds == data_status_block
         IN /\ data_block.kind # "none"
            /\ ParamKeys \ {"fxv", "lxv", "dpf"} \subseteq ds.has
            /\ Len(data_block.arr) >= ds.val["npt"]
            /\ ds.val["npt"] > 0
            /\ LET y == Scale(ds.val["csf"], PySlice(data_block.arr, 0, ds.val["npt"]))
               IN SeqMin(y) = ds.val["mny"] /\ SeqMax(y) = ds.val["mxy"]
    ELSE TRUE

is_data_status_val_match(data_block, data_status_block) ==
    IF is_data(data_block)
    THEN LET ds == data_status_block
         IN IF data_block.kind = "none" THEN TRUE                     \* TypeError: len(None)
            ELSE IF "npt" \notin ds.has THEN TRUE                     \* KeyError
            ELSE IF Len(data_block.arr) < ds.val["npt"] THEN FALSE
            ELSE IF "csf" \notin ds.has THEN TRUE                     \* KeyError
            ELSE LET y == Scale(ds.val["csf"], PySlice(data_block.arr, 0, ds.val["npt"]))
                 IN IF y = <<>> THEN TRUE                             \* ValueError
                    ELSE IF "mny" \notin ds.has THEN TRUE             \* KeyError
                    ELSE IF SeqMin(y) # ds.val["mny"] THEN FALSE
                    ELSE IF "mxy" \notin ds.has THEN TRUE             \* KeyError
                    ELSE SeqMax(y) = ds.val["mxy"]
    ELSE TRUE

\* is_valid_match raises KeyError when the status block has no npt
ValidMatchRaises(data_block, data_status_block) ==
    is_data(data_block) /\ "npt" \notin data_status_block.has

\* a variant that keeps every single match
is_valid_match_keep_all(data_block, data_status_block) == TRUE

is_valid_match(data_block, data_status_block) ==
    IF is_data(data_block) /\ Len(data_block.arr) < data_status_block.val["npt"]
    THEN FALSE
    ELSE TRUE

RECURSIVE InsertDesc(_, _)
\* insert pair p into a list sorted by data start, descending, after its equals
InsertDesc(sorted, p) ==
    IF sorted = <<>> THEN <<p>>
    ELSE IF sorted[1][1].start >= p[1].start
         THEN <<sorted[1]>> \o InsertDesc(Tail(sorted), p)
         ELSE <<p>> \o sorted

\* a variant that leaves the pairs in the order they were found
SortByDataStartDesc_unsorted(ps) == ps

RECURSIVE SortByDataStartDesc(_)
\* list.sort(key=lambda pairs: pairs[0].start, reverse=True): stable
SortByDataStartDesc(ps) ==
    IF ps = <<>> THEN <<>>
    ELSE InsertDesc(SortByDataStartDesc(SubSeq(ps, 1, Len(ps) - 1)), ps[Len(ps)])

\* a variant that takes the first candidate of every non-empty list
Singles_first(ms) ==
    LET some == SelectSeq(ms, LAMBDA m : Len(m[2]) >= 1)
    IN [i \in 1..Len(some) |-> <<some[i][1], some[i][2][1]>>]

\* [(m[0], m[1][0]) for m in ms if len(m[1]) == 1]
Singles(ms) ==
    LET one == SelectSeq(ms, LAMBDA m : Len(m[2]) = 1)
    IN [i \in 1..Len(one) |-> <<one[i][1], one[i][2][1]>>]

\* [match for match in ms if len(match[1]) > 1]
Multis(ms) == SelectSeq(ms, LAMBDA m : Len(m[2]) > 1)

DataStatusBlocks(bs) ==
    SelectSeq(bs, LAMBDA b : is_data_status(b) /\ b.kind # "str")

DataBlocks(bs) ==
    SelectSeq(bs, LAMBDA b : is_data(b) \/ (is_data_series(b) /\ b.kind # "str"))

TypeMatches(bs) ==
    LET data_status == DataStatusBlocks(bs)
        data        == DataBlocks(bs)
    IN [i \in 1..Len(data) |->
          <<data[i], SelectSeq(data_status, LAMBDA b : is_data_status_type_match(data[i], b))>>]

ValMatches(multi) ==
    [i \in 1..Len(multi) |->
       <<multi[i][1], SelectSeq(multi[i][2], LAMBDA b : is_data_status_val_match(multi[i][1], b))>>]

\* a variant that removes no candidate
ReducedMatches_keep(multi, single) == multi

ReducedMatches(multi, single) ==
    LET single_starts == {single[i][2].start : i \in 1..Len(single)}
    IN [i \in 1..Len(multi) |->
          <<multi[i][1], SelectSeq(multi[i][2], LAMBDA b : b.start \notin single_starts)>>]

\* the single matches after the type stage, after the value-range stage and
\* after the cross-exclusion stage, before the validity filter
StageSingles(bs) ==
    LET type_matches == TypeMatches(bs)
        single1 == Singles(type_matches)
        multi1  == Multis(type_matches)
        val_matches == ValMatches(multi1)
        single2 == single1 \o Singles(val_matches)
        multi2  == Multis(val_matches)
        reduced_matches == ReducedMatches(multi2, single2)
    IN single2 \o Singles(reduced_matches)

pair_data_and_status_blocks(bs) ==
    LET single3 == StageSingles(bs)
    IN IF \E i \in 1..Len(single3) : ValidMatchRaises(single3[i][1], single3[i][2])
       THEN Raise(KeyError)
       ELSE Ok(SortByDataStartDesc(
                SelectSeq(single3, LAMBDA m : is_valid_match(m[1], m[2]))))

\* ------------------------------------------------------------------------
\* Blocks as FileDirectory leaves them after a successful parse
\* ------------------------------------------------------------------------

\* block types: a 1-D data block, a data series block, and their data status
\* blocks (same type with type[2] = 1)
TypeData == <<3, 1, 0, 1, 0, 0>>
TypeDataStatus == <<3, 1, 1, 1, 0, 0>>
TypeSeries == <<3, 1, 0, 1, 0, 2>>
TypeSeriesStatus == <<3, 1, 1, 1, 0, 2>>

\* a 1-D data block parsed by parse_data: one array element per 4 bytes
ParsedData(t, start, a) ==
    [type |-> t, size |-> 4 * Len(a), start |-> start, kind |-> "array",
     arr |-> a, has |-> {}, val |-> NoVal, parse_error |-> None,
     parser |-> "parse_data", bytes |-> "empty", debug |-> FALSE]

\* a data series block parsed by parse_data_series (a dict)
ParsedSeries(t, start) ==
    [type |-> t, size |-> 24, start |-> start, kind |-> "series",
     arr |-> <<>>, has |-> {}, val |-> NoVal, parse_error |-> None,
     parser |-> "parse_data_series", bytes |-> "empty", debug |-> FALSE]

\* a parameter block parsed by parse_params (a dict)
ParsedParams(t, start, has, val) ==
    [type |-> t, size |-> 8 * Cardinality(has), start |-> start, kind |-> "dict",
     arr |-> <<>>, has |-> has, val |-> [k \in ParamKeys |-> IF k \in has /\ k \in DOMAIN val THEN val[k] ELSE 0],
     parse_error |-> None, parser |-> "parse_params", bytes |-> "empty", debug |-> FALSE]

MaxLen == 2

ValSamples == {1, 2, 3}
CsfSamples == {0, 1, 2}

Arrays == SeqsUpTo(ValSamples, MaxLen)

\* the status parameters OPUS writes for the first n samples of array a scaled by c
StatusFor(a, n, c) ==
    LET y == Scale(c, PySlice(a, 0, n))
    IN [npt |-> n, csf |-> c, mny |-> SeqMin(y), mxy |-> SeqMax(y)]

\* ------------------------------------------------------------------------
\* Specification SpecFixture: pairing on the duplicate-type fixture, two 1-D
\* data blocks of one type and two data status blocks of the matching type
\* ------------------------------------------------------------------------

Reverse(q) == [i \in 1..Len(q) |-> q[Len(q) + 1 - i]]

InitFixture ==
    /\ pc = "pair_call"
    /\ \E a1, a2 \in Arrays \ {<<>>} : \E n1, n2 \in 1..(MaxLen + 1) :
       \E c1, c2 \in CsfSamples : \E rev \in BOOLEAN :
         LET bs == << ParsedData(TypeData, 100, a1),
                      ParsedParams(TypeDataStatus, 200, ParamKeys, StatusFor(a1, n1, c1)),
                      ParsedData(TypeData, 300, a2),
                      ParsedParams(TypeDataStatus, 400, ParamKeys, StatusFor(a2, n2, c2)) >>
         IN block_list = IF rev THEN Reverse(bs) ELSE bs
    /\ single_matches = None
    /\ NoType /\ NoDir /\ NoDecode /\ NoCall

PairBlocks ==
    /\ pc = "pair_call"
    /\ single_matches' = pair_data_and_status_blocks(block_list)
    /\ pc' = "pair_done"
    /\ UNCHANGED <<block_list, typeVars, dirVars, decodeVars, callVars>>

NextFixture == PairBlocks

SpecFixture == InitFixture /\ [][NextFixture]_vars

Range(q) == {q[i] : i \in 1..Len(q)}

\* (mny, mxy) of status block s equal the min and max of csf times the first
\* npt samples of data block d
Agrees(d, s) ==
    /\ ParamKeys \subseteq s.has
    /\ s.val["npt"] \in 1..Len(d.arr)
    /\ LET y == Scale(s.val["csf"], PySlice(d.arr, 0, s.val["npt"]))
       IN s.val["mny"] = SeqMin(y) /\ s.val["mxy"] = SeqMax(y)

\* the fixture of C5 with data blocks d1, d2 and their status blocks s1, s2
DuplicateTypeFixture(d1, d2, s1, s2) ==
    /\ d1.start # d2.start /\ s1.start # s2.start
    /\ is_data(d1) /\ is_data(d2) /\ d1.type = d2.type
    /\ is_data_status(s1) /\ is_data_status(s2) /\ s1.type = s2.type
    /\ s1.type = [d1.type EXCEPT ![3] = 1]
    /\ Range(d1.arr) \cap Range(d2.arr) = {}
    /\ Agrees(d1, s1) /\ Agrees(d2, s2)

\* C5: on the duplicate-type fixture (two 1-D data blocks of one type with
\* disjoint value ranges, two status blocks whose mny/mxy equal the scaled
\* min/max of one data block each) exactly two pairs are returned, each data
\* block with the status block that agrees with it.
C5_FixturePairs ==
    pc = "pair_done" =>
        \A d1, d2, s1, s2 \in Range(block_list) :
            DuplicateTypeFixture(d1, d2, s1, s2) =>
                /\ single_matches.exc = None
                /\ Len(single_matches.val) = 2
                /\ Range(single_matches.val) = {<<d1, s1>>, <<d2, s2>>}

\* C5 as amended: the same, unless each status block agrees with the other
\* data block as well (as both do when csf is 0 in both)
C5_FixturePairsUnlessBothAgree ==
    pc = "pair_done" =>
        \A d1, d2, s1, s2 \in Range(block_list) :
            (DuplicateTypeFixture(d1, d2, s1, s2)
                /\ ~(Agrees(d1, s2) /\ Agrees(d2, s1))) =>
                /\ single_matches.exc = None
                /\ Len(single_matches.val) = 2
                /\ Range(single_matches.val) = {<<d1, s1>>, <<d2, s2>>}

\* C5 witness: the fixture was paired with different scale factors
C5_Witness ==
    /\ pc = "pair_done"
    /\ \E d1, d2, s1, s2 \in Range(block_list) :
        /\ DuplicateTypeFixture(d1, d2, s1, s2)
        /\ s1.val["csf"] = 2 /\ s2.val["csf"] = 1
        /\ Len(d1.arr) = 2 /\ s1.val["mny"] # s1.val["mxy"]
        /\ Range(single_matches.val) = {<<d1, s1>>, <<d2, s2>>}

\* ------------------------------------------------------------------------
\* Specification SpecPair: pairing on lists of parsed data, data series and
\* data status blocks, the status blocks with or without the key npt
\* ------------------------------------------------------------------------

MaxData == 2
MaxStatus == 2

Ones(n) == [i \in 1..n |-> 1]

\* parsed data blocks, by array length, and a parsed data series block
DataPool ==
    {ParsedData(TypeData, 0, Ones(n)) : n \in 0..MaxLen}
        \cup {ParsedSeries(TypeSeries, 0)}

\* parsed data status blocks: npt absent, or 0..MaxLen + 1; csf = mny = mxy = 1
StatusPool ==
    {ParsedParams(t, 0, ParamKeys \ {"npt"}, [npt |-> 0, csf |-> 1, mny |-> 1, mxy |-> 1]) :
        t \in {TypeDataStatus, TypeSeriesStatus}}
    \cup
    {ParsedParams(t, 0, ParamKeys, [npt |-> n, csf |-> 1, mny |-> 1, mxy |-> 1]) :
        t \in {TypeDataStatus, TypeSeriesStatus}, n \in 0..(MaxLen + 1)}

\* the blocks of q at distinct start offsets base + 100, base + 200, ...
Place(q, base) == [i \in 1..Len(q) |-> [q[i] EXCEPT !.start = base + 100 * i]]

InitPair ==
    /\ pc = "pair_call"
    /\ \E ds \in SeqsUpTo(DataPool, MaxData) : \E ss \in SeqsUpTo(StatusPool, MaxStatus) :
       \E rev \in BOOLEAN :
         block_list = IF rev THEN Place(ss, 0) \o Place(ds, 1000)
                             ELSE Place(ds, 0) \o Place(ss, 1000)
    /\ single_matches = None
    /\ NoType /\ NoDir /\ NoDecode /\ NoCall

NextPair == PairBlocks

SpecPair == InitPair /\ [][NextPair]_vars

\* C6: no returned pair has a 1-D data block whose array is shorter than the
\* paired status block's npt, whatever stage resolved the pair.
C6_NoShortPair ==
    pc = "pair_done" =>
        \A i \in 1..Len(single_matches.val) :
            LET d == single_matches.val[i][1]
                st == single_matches.val[i][2]
            IN is_data(d) => ("npt" \in st.has /\ Len(d.arr) >= st.val["npt"])

\* C6 witness: a 1-D pair was returned while a single match with a data block
\* shorter than npt was left out
C6_Witness ==
    /\ pc = "pair_done"
    /\ single_matches.exc = None
    /\ \E i \in 1..Len(StageSingles(block_list)) :
          LET m == StageSingles(block_list)[i]
          IN is_data(m[1]) /\ Len(m[1].arr) < m[2].val["npt"]
                /\ m \notin Range(single_matches.val)
    /\ \E m \in Range(single_matches.val) : is_data(m[1])

\* C7: pair_data_and_status_blocks never raises: a data block without a
\* unique candidate is absent from the result, as is a status block not
\* uniquely resolved, and the other single matches are returned.
C7_NeverRaises ==
    pc = "pair_done" =>
        /\ single_matches.exc = None
        /\ \A m \in Range(single_matches.val) : m \in Range(StageSingles(block_list))
        /\ \A m \in Range(StageSingles(block_list)) :
              (~is_data(m[1]) \/ ("npt" \in m[2].has /\ Len(m[1].arr) >= m[2].val["npt"]))
                  => m \in Range(single_matches.val)

\* what the code does: it raises KeyError exactly when a single match of a
\* 1-D data block has a status block without npt
PairRaisesOnMissingNpt ==
    pc = "pair_done" =>
        (single_matches.exc = KeyError <=>
            \E m \in Range(StageSingles(block_list)) : is_data(m[1]) /\ "npt" \notin m[2].has)

\* ------------------------------------------------------------------------
\* Files and the content parsers
\* ------------------------------------------------------------------------

\* A file on disk is a record with the fields
\*   head   : its first bytes (all its bytes when whole is FALSE)
\*   whole  : TRUE when the 24-byte header is complete and the directory follows
\*   max_blocks, num_blocks : the header fields of those names
\*   region : the bytes from the header's directory offset on, kept as the
\*            directory entries (type_int, size_int, start) and a tail; an
\*            entry also carries raw, the bytes of the block it points to
\* The bytes of a block are a record with the fields
\*   words   : the block size the directory gives, in 4-byte words
\*   samples, missing : a data block's 4-byte samples and the number of bytes
\*             of the last sample that the file ends before
\*   has, val, rest : a parameter block's records (keys and values) and the
\*             number of bytes that follow the last record when no END key does
\*   short   : TRUE when the block is shorter than the fixed header of a
\*             report (12 bytes) or of a data series (24 bytes)
Magic == <<10, 10, 254, 254>>

HeaderBytes == 24

FileLen(f) == IF f.whole THEN HeaderBytes + BufferLen(f.region) ELSE Len(f.head)

\* a variant that takes a file shorter than the magic for an OPUS file
read_opus_file_bytes_prefix(f) ==
    LET first_four == PySlice(f.head, 0, 4)
    IN IF first_four = PySlice(Magic, 0, Len(first_four))
       THEN [none |-> FALSE, bytes |-> f]
       ELSE [none |-> TRUE, bytes |-> f]

\* filebytes is None, or the bytes of the file
read_opus_file_bytes(f) ==
    LET first_four == PySlice(f.head, 0, 4)
    IN IF first_four = Magic
       THEN [none |-> FALSE, bytes |-> f]
       ELSE [none |-> TRUE, bytes |-> f]

\* struct.unpack_from at offsets 4, 12, 16 and 20 needs the 24 header bytes
parse_header(f) ==
    IF FileLen(f) < HeaderBytes
    THEN Raise(StructError)
    ELSE Ok([max_blocks |-> f.max_blocks, num_blocks |-> f.num_blocks])

\* round(size / 4) of Python 3: halves go to the even neighbour
PyRoundQuarter(size) ==
    LET q == size \div 4
        r == size % 4
    IN IF r < 2 THEN q
       ELSE IF r > 2 THEN q + 1
       ELSE IF q % 2 = 0 THEN q ELSE q + 1

get_dpf_dtype_count(size) == PyRoundQuarter(size)

ValueError == "ValueError"

\* what a parser returns: the Python type of the value and its contents
Parsed(kind, arr, has, val) == [kind |-> kind, arr |-> arr, has |-> has, val |-> val]

\* np.frombuffer raises ValueError when the buffer holds fewer than count items
parse_data(bb) ==
    LET size  == 4 * Len(bb.samples) - bb.missing
        count == get_dpf_dtype_count(size)
    IN IF 4 * count > size
       THEN Raise(ValueError)
       ELSE Ok(Parsed("array", PySlice(bb.samples, 0, count), {}, NoVal))

\* the loop reads whole records; with fewer than 8 bytes left and no END key
\* struct.unpack_from('<2h', blockbytes[loc + 4:loc + 8]) raises
parse_params(bb) ==
    IF bb.rest > 0 /\ bb.rest < 8
    THEN Raise(StructError)
    ELSE Ok(Parsed("dict", <<>>, bb.has, bb.val))

\* parse_text decodes any bytes (latin-1)
parse_text(bb) == Ok(Parsed("str", <<>>, {}, NoVal))

\* struct.unpack('<3i', blockbytes[:12]) needs 12 bytes; a report block that
\* has them is taken to be well formed
parse_report(bb) ==
    IF bb.short THEN Raise(StructError) ELSE Ok(Parsed("dict", <<>>, {}, NoVal))

\* struct.unpack_from('<6i', blockbytes, 0) needs 24 bytes; a series block
\* that has them is taken to be well formed
parse_data_series(bb) ==
    IF bb.short THEN Raise(StructError) ELSE Ok(Parsed("series", <<>>, {}, NoVal))

\* ------------------------------------------------------------------------
\* block.py: FileBlock construction and parse dispatch
\* ------------------------------------------------------------------------

\* FileBlock.__init__ (debug=False): nothing parsed yet, bytes holds the
\* slice filebytes[start: start + size] ("raw"; "empty" stands for b'')
FileBlock(btype, size, start) ==
    [type |-> btype, size |-> size, start |-> start, kind |-> "none",
     arr |-> <<>>, has |-> {}, val |-> NoVal, parse_error |-> None,
     parser |-> None, bytes |-> "raw", debug |-> FALSE]

\* filebytes[start: start + size] for a block the directory points to
BlockBytes(f, start) ==
    LET i == CHOOSE i \in 1..Len(f.region.entries) : f.region.entries[i].start = start
    IN f.region.entries[i].raw

\* the bytes of the directory block itself: size bytes of directory entries
DirectoryBlockBytes(f, size) ==
    [entries |-> SubSeq(f.region.entries, 1, MinOf(size \div EntryBytes, Len(f.region.entries))),
     tail |-> 0]

get_parser(b) ==
    IF is_directory(b) THEN "parse_directory"
    ELSE IF is_file_log(b) THEN "parse_text"
    ELSE IF is_param(b) THEN "parse_params"
    ELSE IF is_report(b) THEN "parse_report"
    ELSE IF is_data_series(b) THEN "parse_data_series"
    ELSE IF is_data(b) THEN "parse_data"
    ELSE None

\* parser(self.bytes)
RunParser(f, b, parser) ==
    CASE parser = "parse_directory" ->
            LET r == parse_directory(DirectoryBlockBytes(f, b.size))
            IN IF r.exc = None THEN Ok(Parsed("list", <<>>, {}, NoVal)) ELSE Raise(r.exc)
      [] parser = "parse_text" -> parse_text(BlockBytes(f, b.start))
      [] parser = "parse_params" -> parse_params(BlockBytes(f, b.start))
      [] parser = "parse_report" -> parse_report(BlockBytes(f, b.start))
      [] parser = "parse_data_series" -> parse_data_series(BlockBytes(f, b.start))
      [] parser = "parse_data" -> parse_data(BlockBytes(f, b.start))

\* a variant that logs the parser and keeps the bytes
clear_parsed_bytes_keep(b, parser) == [b EXCEPT !.parser = parser]

\* FileBlock._clear_parsed_bytes
clear_parsed_bytes(b, parser) ==
    [b EXCEPT !.parser = parser, !.bytes = IF ~b.debug THEN "empty" ELSE b.bytes]

\* FileBlock._try_parser with the outcome of parser(self.bytes)
try_parser(b, parser, out) ==
    IF out.exc = None
    THEN clear_parsed_bytes([b EXCEPT !.kind = out.val.kind, !.arr = out.val.arr,
                                      !.has = out.val.has, !.val = out.val.val],
                            parser)
    ELSE [b EXCEPT !.parse_error = out.exc]

\* FileBlock.parse
parse(f, b) ==
    LET parser == get_parser(b)
    IN IF parser # None THEN try_parser(b, parser, RunParser(f, b, parser)) ELSE b

\* ------------------------------------------------------------------------
\* directory.py: FileDirectory
\* ------------------------------------------------------------------------

\* the entries parse_directory enumerates for FileDirectory.__init__
Enumerate(f) == parse_directory(DirectorySlice(f.region, f.max_blocks))

\* a variant whose loop ends at the first block that fails to parse
FileDirectory_stop_at_error(f) ==
    LET en == Enumerate(f).val
        parsed == [i \in 1..Len(en) |-> parse(f, FileBlock(en[i][1], en[i][2], en[i][3]))]
        bad == {i \in 1..Len(parsed) : parsed[i].parse_error # None}
        upto == IF bad = {} THEN Len(parsed) ELSE CHOOSE i \in bad : \A j \in bad : i <= j
        kept == SubSeq(parsed, 1, upto)
    IN Ok([blocks |-> SelectSeq(kept, LAMBDA b : b.parse_error = None),
           parse_error_blocks |-> SelectSeq(kept, LAMBDA b : b.parse_error # None)])

\* FileDirectory.__init__: the lists blocks and parse_error_blocks
FileDirectory(f) ==
    LET header == parse_header(f)
    IN IF header.exc # None THEN Raise(header.exc)
       ELSE LET listed == Enumerate(f)
            IN IF listed.exc # None THEN Raise(listed.exc)
               ELSE LET en == listed.val
                        parsed == [i \in 1..Len(en) |->
                                      parse(f, FileBlock(en[i][1], en[i][2], en[i][3]))]
                    IN Ok([blocks |-> SelectSeq(parsed, LAMBDA b : b.parse_error = None),
                           parse_error_blocks |->
                               SelectSeq(parsed, LAMBDA b : b.parse_error # None)])

\* ------------------------------------------------------------------------
\* params.py, data.py: the records built from a (data, data status) pair
\* ------------------------------------------------------------------------

TypeError == "TypeError"
AttributeError == "AttributeError"

\* Parameters.__init__ on a data status block, then the attribute reads of
\* Data.__init__ / DataSeries.__init__: the exception raised, or None.
\* consumed holds the start of every block whose data was set to None.
DataInitError(data_block, data_status_block, consumed) ==
    LET has == data_status_block.has
        no_data == data_block.start \in consumed \/ data_block.kind = "none"
    IN IF data_status_block.start \in consumed \/ data_status_block.kind = "none"
       THEN TypeError                        \* self._params.update(None)
       ELSE IF is_data_series(data_block) /\ no_data THEN TypeError     \* None['y']
       ELSE IF "npt" \notin has THEN AttributeError                     \* self.params.npt
       ELSE IF is_data(data_block) /\ "csf" \notin has
       THEN AttributeError                   \* self.params.csf
       ELSE IF no_data THEN TypeError        \* None[...]
       ELSE IF "fxv" \notin has \/ "lxv" \notin has THEN AttributeError \* self.params.fxv, .lxv
       ELSE None

\* variants of self.y: trimmed from the head for every block; not trimmed
DataY_head(data_block, data_status_block) ==
    Scale(data_status_block.val["csf"],
          PySlice(data_block.arr, 0, data_status_block.val["npt"]))

DataY_untrimmed(data_block, data_status_block) ==
    Scale(data_status_block.val["csf"], data_block.arr)

\* np.linspace(fxv, lxv, npt) for npt >= 0: npt evenly spaced points, the
\* i-th kept as the fraction num / den
DataX(data_status_block) ==
    LET npt == data_status_block.val["npt"]
        fxv == data_status_block.val["fxv"]
        lxv == data_status_block.val["lxv"]
    IN [i \in 1..npt |->
          IF npt = 1 THEN [num |-> fxv, den |-> 1]
          ELSE [num |-> fxv * (npt - i) + lxv * (i - 1), den |-> npt - 1]]

\* Data.__init__: self.y (npt >= 0 in the blocks studied)
DataY(data_block, data_status_block) ==
    LET npt == data_status_block.val["npt"]
        y == IF is_compact_data(data_block) /\ npt > 0
             THEN PySliceFromEnd(data_block.arr, npt, 0)
             ELSE data_block.arr
    IN Scale(data_status_block.val["csf"], PySlice(y, 0, npt))

\* a Data or DataSeries instance: self.blocks = self.params.blocks + [self.block]
DataRecord(data_block, data_status_block) ==
    [series |-> is_data_series(data_block),
     y |-> IF is_data(data_block) THEN DataY(data_block, data_status_block) ELSE <<>>,
     x |-> DataX(data_status_block),
     blocks |-> <<data_status_block.start, data_block.start>>]

\* Data(data_block, data_status_block, key, vel) on blocks as parsed
Data(data_block, data_status_block) ==
    LET e == DataInitError(data_block, data_status_block, {})
    IN IF e # None THEN Raise(e) ELSE Ok(DataRecord(data_block, data_status_block))

RECURSIVE BuildRecords(_, _, _)
\* one Data / DataSeries per pair, in the order of the pair list
BuildRecords(pairs, consumed, recs) ==
    IF pairs = <<>> THEN Ok(recs)
    ELSE LET d == pairs[1][1]
             s == pairs[1][2]
             e == DataInitError(d, s, consumed)
         IN IF e # None THEN Raise(e)
            ELSE BuildRecords(Tail(pairs), consumed \cup {d.start, s.start},
                              Append(recs, DataRecord(d, s)))

\* ------------------------------------------------------------------------
\* The file assembler (OPUSFile of the directory.py variant)
\* ------------------------------------------------------------------------

\* the start offsets of a list of blocks
StartsOf(bs) == [i \in 1..Len(bs) |-> bs[i].start]

RECURSIVE Flatten(_)
Flatten(qs) == IF qs = <<>> THEN <<>> ELSE qs[1] \o Flatten(Tail(qs))

\* the blocks held by a list of data records
RecordBlocks(recs) == Flatten([i \in 1..Len(recs) |-> recs[i].blocks])

\* the attributes of a decoded file, each bucket as the starts of its blocks
Assemble(dirv) ==
    LET blocks == dirv.blocks
        pairing == pair_data_and_status_blocks(blocks)
    IN IF pairing.exc # None THEN Raise(pairing.exc)
       ELSE LET built == BuildRecords(pairing.val, {}, <<>>)
            IN IF built.exc # None THEN Raise(built.exc)
               ELSE LET recs == built.val
                        paired == Range(RecordBlocks(recs))
                    IN Ok([is_opus |-> TRUE,
                           params |-> StartsOf(SelectSeq(blocks, is_sm_param)),
                           rf_params |-> StartsOf(SelectSeq(blocks, is_rf_param)),
                           data |-> SelectSeq(recs, LAMBDA r : ~r.series),
                           series |-> SelectSeq(recs, LAMBDA r : r.series),
                           reports |-> StartsOf(SelectSeq(blocks, is_report)),
                           history |-> StartsOf(SelectSeq(blocks, is_file_log)),
                           directory |-> StartsOf(SelectSeq(blocks, is_directory)),
                           unmatched_data_blocks |->
                               StartsOf(SelectSeq(blocks, LAMBDA b : (is_data(b) \/ is_data_series(b))
                                                             /\ b.start \notin paired)),
                           unmatched_data_status_blocks |->
                               StartsOf(SelectSeq(blocks, LAMBDA b : is_data_status(b)
                                                             /\ b.start \notin paired)),
                           unknown_blocks |->
                               StartsOf(SelectSeq(blocks, LAMBDA b :
                                   ~(is_param(b) \/ is_report(b) \/ is_file_log(b)
                                       \/ is_directory(b) \/ is_data(b) \/ is_data_series(b)))),
                           parse_error_blocks |->
                               StartsOf(dirv.parse_error_blocks)])

\* OPUSFile(filepath): read the bytes, build the directory, fill the buckets
OPUSFile(f) ==
    IF read_opus_file_bytes(f).none THEN Ok([is_opus |-> FALSE])
    ELSE LET d == FileDirectory(f)
         IN IF d.exc # None THEN Raise(d.exc) ELSE Assemble(d.val)

\* ------------------------------------------------------------------------
\* Specification SpecDecode: FileDirectory and the decode of a whole file
\* ------------------------------------------------------------------------

MaxBlocks == 3

TypeParam == <<0, 0, 2, 0, 0, 0>>
TypeRfParam == <<0, 2, 2, 0, 0, 0>>
TypeReport == <<0, 0, 0, 0, 0, 2>>
TypeFileLog == <<0, 0, 0, 0, 0, 5>>
TypeDirectory == <<0, 0, 0, 13, 0, 0>>
TypeUnknown == <<0, 0, 0, 0, 0, 0>>

RawData(a, missing) ==
    [words |-> Len(a), samples |-> a, missing |-> missing,
     has |-> {}, val |-> NoVal, rest |-> 0, short |-> FALSE]

RawParams(has, val, rest) ==
    [words |-> 3 * Cardinality(has) + 1, samples |-> <<>>, missing |-> 0,
     has |-> has, val |-> [k \in ParamKeys |-> IF k \in has /\ k \in DOMAIN val THEN val[k] ELSE 0],
     rest |-> rest, short |-> FALSE]

RawOther(short) ==
    [words |-> IF short THEN 2 ELSE 8, samples |-> <<>>, missing |-> 0,
     has |-> {}, val |-> NoVal, rest |-> 0, short |-> short]

\* a directory entry to be: the block type, the block's bytes, and whether
\* the entry is in use (start > 0)
Item(t, raw) == [type |-> t, raw |-> raw, used |-> TRUE]
Sentinel == [type |-> TypeUnknown, raw |-> RawOther(TRUE), used |-> FALSE]

StatusVal == [npt |-> 2, csf |-> 1, mny |-> 1, mxy |-> 1]

BlockPool ==
    { Item(TypeData, RawData(<<1>>, 0)),
      Item(TypeData, RawData(<<1, 1>>, 0)),
      Item(TypeData, RawData(<<1, 1>>, 1)),
      Item(TypeDataStatus, RawParams(ParamKeys, StatusVal, 0)),
      Item(TypeDataStatus, RawParams(ParamKeys \ {"npt"}, StatusVal, 0)),
      Item(TypeDataStatus, RawParams(ParamKeys, StatusVal, 4)),
      Item(TypeParam, RawParams({}, StatusVal, 0)),
      Item(TypeRfParam, RawParams({}, StatusVal, 0)),
      Item(TypeSeries, RawOther(FALSE)),
      Item(TypeSeriesStatus, RawParams(ParamKeys, StatusVal, 0)),
      Item(TypeReport, RawOther(FALSE)),
      Item(TypeReport, RawOther(TRUE)),
      Item(TypeFileLog, RawOther(FALSE)),
      Item(TypeDirectory, RawOther(FALSE)),
      Item(TypeUnknown, RawOther(FALSE)),
      Sentinel }

\* the directory entries for the items of q, block i stored at offset 100 * i
MakeEntries(q) ==
    [i \in 1..Len(q) |->
        [type_int |-> PackFields(q[i].type),
         size_int |-> IF q[i].type = TypeDirectory THEN 3 * Len(q) ELSE q[i].raw.words,
         start |-> IF q[i].used THEN 100 * i ELSE 0,
         raw |-> q[i].raw]]

\* a file with a complete header whose directory lists the items of q
WholeFile(q, maxb) ==
    [head |-> Magic, whole |-> TRUE, max_blocks |-> maxb, num_blocks |-> Len(q),
     region |-> [entries |-> MakeEntries(q), tail |-> 0]]

InitDecode ==
    /\ pc = "decode_new"
    /\ \E q \in SeqsUpTo(BlockPool, MaxBlocks) : file = WholeFile(q, MaxBlocks)
    /\ filebytes = None /\ directory = None /\ opus = None /\ truthy = None
    /\ NoType /\ NoDir /\ NoPair /\ NoCall

\* directory = FileDirectory(filebytes)
FileDirectoryInit ==
    /\ pc = "decode_new"
    /\ directory' = FileDirectory(file)
    /\ pc' = "dir_built"
    /\ UNCHANGED <<file, filebytes, opus, truthy, typeVars, dirVars, pairVars, callVars>>

\* opusfile = OPUSFile(filepath)
OPUSFileDecode ==
    /\ pc = "decode_new"
    /\ filebytes' = read_opus_file_bytes(file)
    /\ directory' = FileDirectory(file)
    /\ opus' = OPUSFile(file)
    /\ pc' = "decoded"
    /\ UNCHANGED <<file, truthy, typeVars, dirVars, pairVars, callVars>>

NextDecode == FileDirectoryInit \/ OPUSFileDecode

SpecDecode == InitDecode /\ [][NextDecode]_vars

\* the number of positions of q that hold x
Count(q, x) == Cardinality({i \in 1..Len(q) : q[i] = x})

\* C3: when the parser of a block raises, the block is in parse_error_blocks
\* with parse_error set and not in blocks; every other enumerated entry,
\* before and after it, is constructed and parsed and is in blocks; each
\* enumerated block is in exactly one of the two lists, once.
C3_ParseErrorIsolated ==
    (pc = "dir_built" /\ directory.exc = None) =>
        LET en == Enumerate(file).val
            good == directory.val.blocks
            bad == directory.val.parse_error_blocks
        IN /\ Len(good) + Len(bad) = Len(en)
           /\ \A i \in 1..Len(en) :
                LET b0 == FileBlock(en[i][1], en[i][2], en[i][3])
                    parser == get_parser(b0)
                    raised == parser # None /\ RunParser(file, b0, parser).exc # None
                    inGood == {j \in 1..Len(good) : good[j].start = b0.start}
                    inBad == {j \in 1..Len(bad) : bad[j].start = b0.start}
                IN IF raised
                   THEN /\ inGood = {} /\ Cardinality(inBad) = 1
                        /\ \A j \in inBad : bad[j].parse_error # None /\ bad[j].kind = "none"
                   ELSE /\ inBad = {} /\ Cardinality(inGood) = 1
                        /\ \A j \in inGood :
                              /\ good[j].parse_error = None
                              /\ good[j].type = b0.type
                              /\ (parser # None => good[j].kind # "none")

\* C3 witness: a block whose parser raised lies between two parsed blocks
C3_Witness ==
    /\ pc = "dir_built" /\ directory.exc = None
    /\ \E e \in Range(directory.val.parse_error_blocks) :
         /\ \E b \in Range(directory.val.blocks) : b.start < e.start /\ b.kind # "none"
         /\ \E b \in Range(directory.val.blocks) : b.start > e.start /\ b.kind # "none"

\* the blocks counted in the buckets of a decoded file
BucketBlocks(o) ==
    o.params \o o.rf_params \o RecordBlocks(o.data) \o RecordBlocks(o.series)
      \o o.reports \o o.history \o o.directory
      \o o.unmatched_data_blocks \o o.unmatched_data_status_blocks
      \o o.unknown_blocks \o o.parse_error_blocks

\* every enumerated block is counted once in the buckets of o, and nothing else is
IsPartition(o) ==
    LET en == Enumerate(file).val
        all == BucketBlocks(o)
    IN /\ Len(all) = Len(en)
       /\ \A i \in 1..Len(en) : Count(all, en[i][3]) = 1

\* C1: after decoding a file every enumerated block is in exactly one bucket
\* (sample params, reference params, data records, series records, reports,
\* history, unmatched data, unmatched status, unknown, parse-error; the
\* directory block is held by the directory): none is counted twice, none
\* is dropped, and the bucket sizes add up to the number of entries enumerated.
C1_Partition ==
    pc = "decoded" => (opus.exc = None /\ IsPartition(opus.val))

\* what the code does: the buckets partition the enumerated blocks whenever
\* the pairing and the record constructors raise nothing
C1_PartitionWhenDecoded ==
    (pc = "decoded" /\ opus.exc = None) => IsPartition(opus.val)

\* the decode raises exactly when pairing raises (C7) or a data status block
\* is paired with two data blocks and is read again after its data was cleared
C1_DecodeRaises ==
    pc = "decoded" =>
        LET pairing == pair_data_and_status_blocks(directory.val.blocks)
        IN opus.exc # None <=>
              \/ pairing.exc # None
              \/ \E i, j \in 1..Len(pairing.val) :
                    i # j /\ pairing.val[i][2].start = pairing.val[j][2].start

\* ------------------------------------------------------------------------
\* file.py: FileBlockInfo, FileDirectory, Data and OPUSFile of that module
\* ------------------------------------------------------------------------

\* a FileBlockInfo is a record with the fields type, size and start
FileBlockInfo(btype, size, start) == [type |-> btype, size |-> size, start |-> start]

FileBlockInfo_is_valid(b) == b.type # <<0, 0, 0, 0, 0, 0>>

FileBlockInfo_is_data_status(b) == T(b, 2) = 1

FileBlockInfo_is_rf_param(b) == T(b, 2) > 1 /\ T(b, 1) = 2

FileBlockInfo_is_param(b) == T(b, 2) > 1

FileBlockInfo_is_directory(b) == b.type = <<0, 0, 0, 13, 0, 0>>

FileBlockInfo_is_file_log(b) == b.type = <<0, 0, 0, 0, 0, 5>>

FileBlockInfo_is_data(b) == T(b, 2) = 0 /\ T(b, 3) > 0 /\ T(b, 3) # 13

FileBlockInfo_is_3d_data(b) == FileBlockInfo_is_data(b) /\ T(b, 5) = 2

\* is_data_status_match returns None (falsy) when self is no data status block
FileBlockInfo_is_data_status_match(self, data_block_info) ==
    IF FileBlockInfo_is_data_status(self)
    THEN PySlice(data_block_info.type, 0, 2) = PySlice(self.type, 0, 2)
            /\ PySlice(data_block_info.type, 3, 6) = PySlice(self.type, 3, 6)
    ELSE FALSE

\* utils.get_data_key: the key text is built from type[3] and from type[1]
\* when it is 1 (sm), 2 (rf) or above 3; the key is kept as that pair
get_data_key(btype) ==
    <<btype[4], IF btype[2] \in {1, 2} \/ btype[2] > 3 THEN btype[2] ELSE 0>>

FileBlockInfo_get_data_key(b) ==
    IF FileBlockInfo_is_data(b) THEN get_data_key(b.type) ELSE <<>>

\* parse_directory(filebytes, start, num_blocks) of the parser module that
\* file.py imports: the first num_blocks directory entries
file_parse_directory(f) == parse_directory(DirectorySlice(f.region, f.num_blocks))

RECURSIVE PairByType(_, _)
\* FileDirectory._pair_data_and_status_blocks: a data block is paired when
\* exactly one data status block matches its type
PairByType(data_blocks, data_status_blocks) ==
    IF data_blocks = <<>> THEN <<>>
    ELSE LET data_block == data_blocks[1]
             status_matches ==
                 SelectSeq(data_status_blocks,
                           LAMBDA b : FileBlockInfo_is_data_status_match(b, data_block))
             rest == PairByType(Tail(data_blocks), data_status_blocks)
         IN IF Len(status_matches) = 1
            THEN <<<<data_block, status_matches[1]>>>> \o rest
            ELSE rest

\* FileDirectory.__init__ of file.py
file_FileDirectory(f) ==
    LET header == parse_header(f)
    IN IF header.exc # None THEN Raise(header.exc)
       ELSE LET listed == file_parse_directory(f)
            IN IF listed.exc # None THEN Raise(listed.exc)
               ELSE LET infos == [i \in 1..Len(listed.val) |->
                                    FileBlockInfo(listed.val[i][1], listed.val[i][2],
                                                  listed.val[i][3])]
                        data_status_blocks == SelectSeq(infos, FileBlockInfo_is_data_status)
                        rf_param_blocks ==
                            SelectSeq(infos, LAMBDA b : ~FileBlockInfo_is_data_status(b)
                                                          /\ FileBlockInfo_is_rf_param(b))
                        param_blocks ==
                            SelectSeq(infos, LAMBDA b : ~FileBlockInfo_is_data_status(b)
                                                          /\ ~FileBlockInfo_is_rf_param(b)
                                                          /\ FileBlockInfo_is_param(b))
                        data_blocks ==
                            SelectSeq(infos, LAMBDA b : ~FileBlockInfo_is_data_status(b)
                                                          /\ ~FileBlockInfo_is_rf_param(b)
                                                          /\ ~FileBlockInfo_is_param(b)
                                                          /\ ~FileBlockInfo_is_directory(b)
                                                          /\ ~FileBlockInfo_is_file_log(b)
                                                          /\ FileBlockInfo_is_valid(b))
                    IN Ok([data_blocks |-> data_blocks,
                           data_status_blocks |-> data_status_blocks,
                           param_blocks |-> param_blocks,
                           rf_param_blocks |-> rf_param_blocks,
                           data_and_status_block_pairs |->
                               PairByType(data_blocks, data_status_blocks)])

\* Parameters.__init__ of file.py on a list of parameter blocks: the exception
\* raised by parsing one of them, or None
file_ParametersError(f, param_blocks) ==
    LET raised == {i \in 1..Len(param_blocks) :
                      parse_params(BlockBytes(f, param_blocks[i].start)).exc # None}
    IN IF raised = {} THEN None
       ELSE parse_params(BlockBytes(f, param_blocks[CHOOSE i \in raised :
                                        \A j \in raised : i <= j].start)).exc

\* Data.__init__ of file.py: y = parse_data_block(..., dpf=self.params.dpf)[:npt],
\* x = np.linspace(fxv, lxv, npt); the record keeps y and npt
file_Data(f, data_info, data_status_info) ==
    LET status == parse_params(BlockBytes(f, data_status_info.start))
    IN IF status.exc # None THEN Raise(status.exc)
       ELSE IF "dpf" \notin status.val.has THEN Raise(AttributeError)
       ELSE LET y == parse_data(BlockBytes(f, data_info.start))
            IN IF y.exc # None THEN Raise(y.exc)
               ELSE IF {"npt", "fxv", "lxv"} \ status.val.has # {} THEN Raise(AttributeError)
               ELSE Ok([y |-> PySlice(y.val.arr, 0, status.val.val["npt"]),
                        npt |-> status.val.val["npt"]])

RECURSIVE AddData(_, _, _)
\* the loop over data_and_status_block_pairs of OPUSFile.__init__
AddData(f, pairs, data_keys) ==
    IF pairs = <<>> THEN Ok(data_keys)
    ELSE LET data == pairs[1][1]
             status == pairs[1][2]
             key == FileBlockInfo_get_data_key(data)
         IN IF FileBlockInfo_is_3d_data(data)
            THEN AddData(f, Tail(pairs), Append(data_keys, key))
            ELSE LET data_class == file_Data(f, data, status)
                 IN IF data_class.exc # None THEN Raise(data_class.exc)
                    ELSE IF Len(data_class.val.y) < data_class.val.npt
                    THEN Ok(data_keys)              \* break
                    ELSE AddData(f, Tail(pairs), Append(data_keys, key))

\* OPUSFile.__init__ of file.py; attempted lists the parsing steps it started
file_OPUSFile(f) ==
    LET bytes == read_opus_file_bytes(f)
    IN IF bytes.none
       THEN Ok([is_opus |-> FALSE, attempted |-> <<>>, data_keys |-> <<>>])
       ELSE LET d == file_FileDirectory(f)
            IN IF d.exc # None THEN Raise(d.exc)
               ELSE LET e == file_ParametersError(f, d.val.param_blocks \o d.val.rf_param_blocks)
                    IN IF e # None THEN Raise(e)
                       ELSE LET keys == AddData(f, d.val.data_and_status_block_pairs, <<>>)
                            IN IF keys.exc # None THEN Raise(keys.exc)
                               ELSE Ok([is_opus |-> TRUE,
                                        attempted |-> <<"parse_header", "parse_directory",
                                                        "parse_param_block", "parse_data_block">>,
                                        data_keys |-> keys.val])

\* ------------------------------------------------------------------------
\* Specification SpecFile: read_opus_file_bytes and OPUSFile of file.py on
\* files shorter than a header and on whole files
\* ------------------------------------------------------------------------

MaxFileLen == 5
MaxOldBlocks == 4

ByteSamples == {0, 10, 254}

TypeRef == <<3, 2, 0, 1, 0, 0>>
TypeRefStatus == <<3, 2, 1, 1, 0, 0>>

\* a file that ends after the bytes of head
ShortFile(head) ==
    [head |-> head, whole |-> FALSE, max_blocks |-> 0, num_blocks |-> 0,
     region |-> [entries |-> <<>>, tail |-> 0]]

OldPool ==
    { Item(TypeData, RawData(<<1>>, 0)),
      Item(TypeData, RawData(<<1, 1>>, 0)),
      Item(TypeDataStatus, RawParams(ParamKeys, StatusVal, 0)),
      Item(TypeRef, RawData(<<1>>, 0)),
      Item(TypeRef, RawData(<<1, 1>>, 0)),
      Item(TypeRefStatus, RawParams(ParamKeys, StatusVal, 0)),
      Item(TypeSeries, RawOther(FALSE)),
      Item(TypeSeriesStatus, RawParams(ParamKeys, StatusVal, 0)),
      Item(TypeParam, RawParams({}, StatusVal, 0)) }

InitFile ==
    /\ pc = "open_new"
    /\ \/ \E head \in SeqsUpTo(ByteSamples, MaxFileLen) : file = ShortFile(head)
       \/ \E q \in SeqsUpTo(OldPool, MaxOldBlocks) : file = WholeFile(q, Len(q))
    /\ filebytes = None /\ directory = None /\ opus = None /\ truthy = None
    /\ NoType /\ NoDir /\ NoPair /\ NoCall

\* filebytes = read_opus_file_bytes(filepath)
ReadOpusFileBytes ==
    /\ pc = "open_new"
    /\ filebytes' = read_opus_file_bytes(file)
    /\ pc' = "read_done"
    /\ UNCHANGED <<file, directory, opus, truthy, typeVars, dirVars, pairVars, callVars>>

\* opusfile = OPUSFile(filepath)
OPUSFileInit ==
    /\ pc = "open_new"
    /\ filebytes' = read_opus_file_bytes(file)
    /\ opus' = file_OPUSFile(file)
    /\ pc' = "constructed"
    /\ UNCHANGED <<file, directory, truthy, typeVars, dirVars, pairVars, callVars>>

\* bool(opusfile): OPUSFile.__bool__
OPUSFileBool ==
    /\ pc = "constructed"
    /\ opus.exc = None
    /\ truthy' = opus.val.is_opus
    /\ pc' = "bool_done"
    /\ UNCHANGED <<file, filebytes, directory, opus, typeVars, dirVars, pairVars, callVars>>

NextFile == ReadOpusFileBytes \/ OPUSFileInit \/ OPUSFileBool

SpecFile == InitFile /\ [][NextFile]_vars

\* the first four bytes of the file are not 0A 0A FE FE
NotMagic(f) == PySlice(f.head, 0, 4) # Magic

\* C2: for a file whose first four bytes are not 0A 0A FE FE, an empty file
\* and a file of fewer than 4 bytes included, read_opus_file_bytes returns
\* None and OPUSFile construction completes without raising, with is_opus
\* False and a falsy object; no header, directory or block parsing is started.
C2_NotAnOpusFile ==
    NotMagic(file) =>
        /\ pc \in {"read_done", "constructed", "bool_done"} => filebytes.none
        /\ pc \in {"constructed", "bool_done"} =>
              (opus.exc = None /\ ~opus.val.is_opus /\ opus.val.attempted = <<>>)
        /\ pc = "bool_done" => truthy = FALSE

\* C2 witness: a file of three bytes, a prefix of the magic, was opened and
\* the object was tested for truth
C2_Witness ==
    pc = "bool_done" /\ file.head = <<10, 10, 254>> /\ ~file.whole

\* the pairs FileDirectory of file.py hands to OPUSFile.__init__
PairsOf(f) == file_FileDirectory(f).val.data_and_status_block_pairs

\* a pair of a 1-D data block with at least npt samples
LongEnough(f, pair) ==
    /\ ~FileBlockInfo_is_3d_data(pair[1])
    /\ LET d == file_Data(f, pair[1], pair[2])
       IN d.exc = None /\ Len(d.val.y) >= d.val.npt

\* C4: when a 1-D data block has fewer samples than its status block's npt,
\* every other data block that is uniquely paired and long enough still has
\* its data record and its key in data_keys, wherever the short block is.
C4_OtherRecordsKept ==
    (pc = "constructed" /\ file.whole /\ opus.exc = None) =>
        \A i \in 1..Len(PairsOf(file)) :
            LongEnough(file, PairsOf(file)[i]) =>
                FileBlockInfo_get_data_key(PairsOf(file)[i][1]) \in Range(opus.val.data_keys)

\* what the code does: data_keys holds the keys of the pairs before the
\* first pair whose 1-D data block is shorter than npt, and no key after it
C4_KeysUntilShort ==
    (pc = "constructed" /\ file.whole /\ opus.exc = None) =>
        LET pairs == PairsOf(file)
            short == {i \in 1..Len(pairs) :
                         ~FileBlockInfo_is_3d_data(pairs[i][1]) /\ ~LongEnough(file, pairs[i])}
            n == IF short = {} THEN Len(pairs)
                 ELSE (CHOOSE i \in short : \A j \in short : i <= j) - 1
        IN opus.val.data_keys = [i \in 1..n |-> FileBlockInfo_get_data_key(pairs[i][1])]

\* ------------------------------------------------------------------------
\* parse.py: parse_params and decode_str on the bytes of a buffer
\* (a buffer is a sequence of integers 0..255; a str is the sequence of its
\* code points; a dict is a function from its keys to their values)
\* ------------------------------------------------------------------------

UnicodeDecodeError == "UnicodeDecodeError"

\* struct.unpack_from('<h'), '<i': little-endian two's-complement integers
UnpackInt16(b) ==
    LET u == b[1] + 256 * b[2]
    IN IF u >= 32768 THEN u - 65536 ELSE u

UnpackInt32(b) ==
    b[1] + 256 * b[2] + 65536 * b[3] + 16777216 * (IF b[4] >= 128 THEN b[4] - 256 ELSE b[4])

\* the values a parameter can hold: int, float (kept as the eight bytes of its
\* IEEE-754 encoding) and str
IntVal(n) == [t |-> "int", v |-> n]
FloatVal(b) == [t |-> "float", v |-> b]
StrVal(s) == [t |-> "str", v |-> s]

\* 'Failed to decode: ' + str(e): the text decode_str returns instead of raising
FailedToDecode == <<70, 97, 105, 108, 101, 100>>

\* bytes.find(b'\x00'): the index (from 0) of the first zero byte, or -1
Find00(val) ==
    LET zs == {i \in 1..Len(val) : val[i] = 0}
    IN IF zs = {} THEN -1 ELSE (CHOOSE i \in zs : \A j \in zs : i <= j) - 1

\* decode_str(size, blockbytes, offset); latin-1 maps each byte to the code
\* point of the same number
decode_str(size, blockbytes, offset) ==
    IF size < 0 \/ offset + size > Len(blockbytes)
    THEN FailedToDecode                               \* struct.error, caught
    ELSE LET val == PySlice(blockbytes, offset, offset + size)
             x00_pos == Find00(val)
         IN IF x00_pos # -1 THEN PySlice(val, 0, x00_pos) ELSE val

\* bytes.decode('utf-8') of a slice of at most three bytes
RECURSIVE DecodeUtf8(_)
DecodeUtf8(b) ==
    IF b = <<>> THEN Ok(<<>>)
    ELSE LET Cont(i) == Len(b) >= i /\ b[i] >= 128 /\ b[i] <= 191
             n == IF b[1] < 128 THEN 1
                  ELSE IF b[1] >= 194 /\ b[1] <= 223 /\ Cont(2) THEN 2
                  ELSE IF /\ b[1] >= 224 /\ b[1] <= 239 /\ Cont(2) /\ Cont(3)
                          /\ (b[1] = 224 => b[2] >= 160)
                          /\ (b[1] = 237 => b[2] <= 159) THEN 3
                  ELSE 0
         IN IF n = 0 THEN Raise(UnicodeDecodeError)
            ELSE LET cp == IF n = 1 THEN b[1]
                           ELSE IF n = 2 THEN (b[1] - 192) * 64 + (b[2] - 128)
                           ELSE (b[1] - 224) * 4096 + (b[2] - 128) * 64 + (b[3] - 128)
                     rest == DecodeUtf8(PySlice(b, n, Len(b)))
                 IN IF rest.exc # None THEN rest ELSE Ok(<<cp>> \o rest.val)

\* str.lower() on the code points below 256 (those above are left as they are)
Lower(s) ==
    [i \in 1..Len(s) |->
        IF (s[i] >= 65 /\ s[i] <= 90) \/ (s[i] >= 192 /\ s[i] <= 222 /\ s[i] # 215)
        THEN s[i] + 32 ELSE s[i]]

KeyEND == <<69, 78, 68>>

\* params[key] = val
DictSet(params, key, val) ==
    [k \in (DOMAIN params) \cup {key} |-> IF k = key THEN val ELSE params[k]]

EmptyDict == [k \in {} |-> 0]

\* a variant of the loop that does not stop at the key END
RECURSIVE ParamsLoop_no_end(_, _, _)
ParamsLoop_no_end(blockbytes, loc, params) ==
    IF ~(loc < Len(blockbytes)) THEN Ok(params)
    ELSE LET key == DecodeUtf8(PySlice(blockbytes, loc, loc + 3))
             head == PySlice(blockbytes, loc + 4, loc + 8)
         IN IF key.exc # None THEN key
            ELSE IF Len(head) < 4 THEN Raise(StructError)
            ELSE LET dtype_code == UnpackInt16(PySlice(head, 0, 2))
                     val_size == UnpackInt16(PySlice(head, 2, 4)) * 2
                     width == IF dtype_code = 0 THEN 4 ELSE IF dtype_code = 1 THEN 8 ELSE 0
                 IN IF loc + 8 + width > Len(blockbytes) THEN Raise(StructError)
                    ELSE LET val == IF dtype_code = 0
                                    THEN IntVal(UnpackInt32(PySlice(blockbytes, loc + 8, loc + 12)))
                                    ELSE IF dtype_code = 1
                                    THEN FloatVal(PySlice(blockbytes, loc + 8, loc + 16))
                                    ELSE StrVal(decode_str(val_size, blockbytes, loc + 8))
                         IN ParamsLoop_no_end(blockbytes, loc + val_size + 8,
                                              DictSet(params, Lower(key.val), val))

\* the while loop of parse_params, entered with loc and params (the sizes of
\* the records of the buffers studied are not negative, so loc grows)
RECURSIVE ParamsLoop(_, _, _)
ParamsLoop(blockbytes, loc, params) ==
    IF ~(loc < Len(blockbytes)) THEN Ok(params)
    ELSE LET key == DecodeUtf8(PySlice(blockbytes, loc, loc + 3))
             head == PySlice(blockbytes, loc + 4, loc + 8)
         IN IF key.exc # None THEN key
            ELSE IF key.val = KeyEND THEN Ok(params)
            ELSE IF Len(head) < 4 THEN Raise(StructError)
            ELSE LET dtype_code == UnpackInt16(PySlice(head, 0, 2))
                     val_size == UnpackInt16(PySlice(head, 2, 4)) * 2
                     width == IF dtype_code = 0 THEN 4 ELSE IF dtype_code = 1 THEN 8 ELSE 0
                 IN IF loc + 8 + width > Len(blockbytes) THEN Raise(StructError)
                    ELSE LET val == IF dtype_code = 0
                                    THEN IntVal(UnpackInt32(PySlice(blockbytes, loc + 8, loc + 12)))
                                    ELSE IF dtype_code = 1
                                    THEN FloatVal(PySlice(blockbytes, loc + 8, loc + 16))
                                    ELSE StrVal(decode_str(val_size, blockbytes, loc + 8))
                         IN ParamsLoop(blockbytes, loc + val_size + 8,
                                       DictSet(params, Lower(key.val), val))

\* parse_params(blockbytes) on the bytes of the buffer
parse_params_bytes(blockbytes) == ParamsLoop(blockbytes, 0, EmptyDict)

\* ------------------------------------------------------------------------
\* parse_params on crafted buffers: records, END, trailing bytes
\* ------------------------------------------------------------------------

MaxRecords == 2
MaxGarbage == 2

\* struct.pack('<h', n) for 0 <= n < 32768
PackInt16(n) == <<n % 256, n \div 256>>

\* a well-formed record: three key bytes and a pad byte, the dtype code, the
\* size of the value in 16-bit words, then the value in 2 * words bytes
Record(key, dtype_code, value) ==
    [key |-> key, dtype_code |-> dtype_code, value |-> value]

RecordBytes(r) ==
    r.key \o <<0>> \o PackInt16(r.dtype_code) \o PackInt16(Len(r.value) \div 2) \o r.value

RECURSIVE BufferOf(_)
BufferOf(recs) == IF recs = <<>> THEN <<>> ELSE RecordBytes(Head(recs)) \o BufferOf(Tail(recs))

RecordPool ==
    { Record(<<78, 80, 84>>, 0, <<10, 0, 0, 0>>),                 \* NPT = 10
      Record(<<110, 112, 116>>, 0, <<255, 255, 255, 255>>),       \* npt = -1
      Record(<<67, 83, 70>>, 1, <<0, 0, 0, 0, 0, 0, 240, 63>>),   \* CSF = 1.0
      Record(<<83, 78, 77>>, 2, <<69, 78, 0, 68>>),               \* SNM = 'EN'
      Record(<<69, 110, 100>>, 3, <<69, 78, 68, 0>>),             \* End = 'END'
      Record(<<88, 80, 80>>, 4, <<>>) }                           \* XPP = ''

GarbageBytes == {0, 69, 255}

InitParams ==
    /\ pc = "params_new"
    /\ \E recs \in SeqsUpTo(RecordPool, MaxRecords), garbage \in SeqsUpTo(GarbageBytes, MaxGarbage) :
          args = [records |-> recs, garbage |-> garbage,
                  blockbytes |-> BufferOf(recs) \o KeyEND \o garbage]
    /\ result = None
    /\ NoType /\ NoDir /\ NoPair /\ NoDecode

ParseParams ==
    /\ pc = "params_new"
    /\ result' = parse_params_bytes(args.blockbytes)
    /\ pc' = "params_done"
    /\ UNCHANGED <<args, typeVars, dirVars, pairVars, decodeVars>>

NextParams == ParseParams

SpecParams == InitParams /\ [][NextParams]_vars

\* the value a record holds, by its dtype code
RecordValue(r) ==
    IF r.dtype_code = 0 THEN IntVal(UnpackInt32(r.value))
    ELSE IF r.dtype_code = 1 THEN FloatVal(r.value)
    ELSE StrVal(IF Find00(r.value) = -1 THEN r.value
                ELSE SubSeq(r.value, 1, Find00(r.value)))

\* the last record of recs with the lower-cased key k
LastWithKey(recs, k) ==
    recs[CHOOSE i \in 1..Len(recs) :
            /\ Lower(recs[i].key) = k
            /\ \A j \in (i + 1)..Len(recs) : Lower(recs[j].key) # k]

\* C11: on a buffer of well-formed records, the key END and arbitrary
\* trailing bytes, parse_params returns a dict whose keys are the lower-cased
\* keys of the records before END, each with the value of (the last of) its
\* records decoded by dtype (0: int32, 1: float64, other: str), and the same
\* dict as on the buffer cut right after END.
C11_RecordsBeforeEnd ==
    pc = "params_done" =>
        /\ result.exc = None
        /\ DOMAIN result.val = {Lower(args.records[i].key) : i \in 1..Len(args.records)}
        /\ \A k \in DOMAIN result.val :
              result.val[k] = RecordValue(LastWithKey(args.records, k))
        /\ result = parse_params_bytes(BufferOf(args.records) \o KeyEND)

\* NPT = <i32 10>, END, garbage has been parsed to {npt: 10}
C11_Witness ==
    /\ pc = "params_done"
    /\ args.records = <<Record(<<78, 80, 84>>, 0, <<10, 0, 0, 0>>)>>
    /\ Len(args.garbage) = MaxGarbage
    /\ result = Ok([k \in {<<110, 112, 116>>} |-> IntVal(10)])

\* ------------------------------------------------------------------------
\* Specification SpecData: two 1-D data blocks (ordinary or compact) and two
\* data status blocks are paired, and a Data record is built from a pair
\* ------------------------------------------------------------------------

MaxPoints == 3

TypeCompact == <<3, 1, 0, 1, 0, 4>>
TypeCompactStatus == <<3, 1, 1, 1, 0, 4>>

\* the array 1, 2, ..., n
Counting(n) == [i \in 1..n |-> i]

CsfOfData == 2

DataBlockPool ==
    {ParsedData(t, 0, Counting(n)) : t \in {TypeData, TypeCompact}, n \in 0..MaxPoints}

\* the status parameters written for the first n samples of Counting(n)
CountingStatus(n) ==
    [npt |-> n, csf |-> CsfOfData, mny |-> IF n = 0 THEN 0 ELSE CsfOfData,
     mxy |-> CsfOfData * n, fxv |-> 4, lxv |-> 8, dpf |-> 1]

DataStatusPool ==
    {ParsedParams(t, 0, ParamKeys, CountingStatus(n)) :
        t \in {TypeDataStatus, TypeCompactStatus}, n \in 0..(MaxPoints + 1)}
    \cup
    {ParsedParams(t, 0, ParamKeys \ {k}, CountingStatus(1)) :
        t \in {TypeDataStatus, TypeCompactStatus}, k \in {"npt", "csf", "fxv"}}

InitData ==
    /\ pc = "pair_call"
    /\ \E d1, d2 \in DataBlockPool : \E s1, s2 \in DataStatusPool :
          block_list = Place(<<d1, s1, d2, s2>>, 0)
    /\ single_matches = None
    /\ args = None /\ result = None
    /\ NoType /\ NoDir /\ NoDecode

\* Data(data_block, data_status_block, key, vel) for one of the pairs returned
DataInit ==
    /\ pc = "pair_done"
    /\ single_matches.exc = None
    /\ \E i \in 1..Len(single_matches.val) :
          /\ args' = single_matches.val[i]
          /\ result' = Data(single_matches.val[i][1], single_matches.val[i][2])
    /\ pc' = "data_built"
    /\ UNCHANGED <<typeVars, dirVars, pairVars, decodeVars>>

NextData == PairBlocks \/ DataInit

SpecData == InitData /\ [][NextData]_vars

\* the last n elements of array a
LastN(a, n) == [i \in 1..n |-> a[Len(a) - n + i]]

\* the first n elements of array a
FirstN(a, n) == [i \in 1..n |-> a[i]]

\* C12: when the data block's array has more elements than the paired status
\* block's npt, the Data record's y has exactly npt elements: csf times the
\* first npt elements for an ordinary block, csf times the last npt elements
\* for a compact block (type[5] = 4).
C12_TrimToNpt ==
    (pc = "data_built" /\ result.exc = None
        /\ Len(args[1].arr) > args[2].val["npt"]) =>
        LET npt == args[2].val["npt"]
            csf == args[2].val["csf"]
            kept == IF T(args[1], 5) = 4 THEN LastN(args[1].arr, npt)
                    ELSE FirstN(args[1].arr, npt)
        IN /\ Len(result.val.y) = npt
           /\ result.val.y = [i \in 1..npt |-> csf * kept[i]]

\* a compact block with more samples than npt was trimmed, and its y does not
\* start with the first sample
C12_Witness ==
    /\ pc = "data_built"
    /\ result.exc = None
    /\ T(args[1], 5) = 4
    /\ args[2].val["npt"] >= 1
    /\ Len(args[1].arr) > args[2].val["npt"]
    /\ result.val.y[1] # args[2].val["csf"] * args[1].arr[1]

\* C13: a Data record built from a pair that pair_data_and_status_blocks
\* returned satisfies len(y) = len(x) = npt of its status block.
C13_LengthsEqualNpt ==
    (pc = "data_built" /\ result.exc = None) =>
        /\ Len(result.val.y) = args[2].val["npt"]
        /\ Len(result.val.x) = args[2].val["npt"]

\* a record was built from a compact block that has one sample more than
\* npt, npt >= 2: its x and y both have npt elements
C13_Witness ==
    /\ pc = "data_built"
    /\ result.exc = None
    /\ T(args[1], 5) = 4
    /\ args[2].val["npt"] >= 2
    /\ Len(args[1].arr) = args[2].val["npt"] + 1
    /\ Len(result.val.x) = args[2].val["npt"]
    /\ Len(result.val.y) = args[2].val["npt"]

\* ------------------------------------------------------------------------
\* parse.py: parse_data on the bytes of a data block, with its dpf argument
\* ------------------------------------------------------------------------

\* get_dpf_dtype_count: the numpy dtype chosen by dpf
get_dpf_dtype(dpf) == IF dpf = 2 THEN "int32" ELSE "float32"

\* one array element: four bytes read as int32, or as float32 (kept as the
\* four bytes of its IEEE-754 encoding)
Element(dtype, b) == IF dtype = "int32" THEN IntVal(UnpackInt32(b)) ELSE FloatVal(b)

\* np.frombuffer(blockbytes, dtype=dtype, count=count)
FromBuffer(blockbytes, dtype, count) ==
    IF 4 * count > Len(blockbytes)
    THEN Raise(ValueError)
    ELSE Ok([dtype |-> dtype,
             arr |-> [i \in 1..count |-> Element(dtype, PySlice(blockbytes, 4 * (i - 1), 4 * i))]])

\* parse_data(blockbytes, dpf)
parse_data_dpf(blockbytes, dpf) ==
    FromBuffer(blockbytes, get_dpf_dtype(dpf), get_dpf_dtype_count(Len(blockbytes)))

\* FileBlock.parse of a 1-D data block: get_parser gives parse_data and
\* _try_parser calls parser(self.bytes), so dpf keeps its default value 1
FileBlock_parse_data(blockbytes) == parse_data_dpf(blockbytes, 1)

\* ------------------------------------------------------------------------
\* Specification SpecDpf: the bytes of a data block are decoded by a direct
\* call of parse_data with the paired status block's DPF, or by FileBlock.parse
\* ------------------------------------------------------------------------

MaxWords == 2

\* 4-byte samples: 1 as int32, and 1.0 as float32
WordPool == {<<1, 0, 0, 0>>, <<0, 0, 128, 63>>}

DpfSamples == {0, 1, 2, 3}

InitDpf ==
    /\ pc = "dpf_new"
    /\ \E ws \in SeqsUpTo(WordPool, MaxWords), extra \in 0..3, dpf \in DpfSamples :
          args = [blockbytes |-> Flatten(ws) \o [i \in 1..extra |-> 0], dpf |-> dpf]
    /\ result = None
    /\ NoType /\ NoDir /\ NoPair /\ NoDecode

\* parse_data(blockbytes, dpf=status.dpf)
ParseDataCall ==
    /\ pc = "dpf_new"
    /\ result' = parse_data_dpf(args.blockbytes, args.dpf)
    /\ pc' = "direct_done"
    /\ UNCHANGED <<args, typeVars, dirVars, pairVars, decodeVars>>

\* block.parse() of the data block; its data is what Data.__init__ trims and
\* scales into the record
FileBlockParse ==
    /\ pc = "dpf_new"
    /\ result' = FileBlock_parse_data(args.blockbytes)
    /\ pc' = "block_done"
    /\ UNCHANGED <<args, typeVars, dirVars, pairVars, decodeVars>>

NextDpf == ParseDataCall \/ FileBlockParse

SpecDpf == InitDpf /\ [][NextDpf]_vars

\* the array the claim describes: byteSize / 4 elements of the type DPF selects
ExpectedArray(blockbytes, dpf) ==
    LET dtype == IF dpf = 2 THEN "int32" ELSE "float32"
    IN [dtype |-> dtype,
        arr |-> [i \in 1..(Len(blockbytes) \div 4) |->
                    Element(dtype, SubSeq(blockbytes, 4 * i - 3, 4 * i))]]

\* C14: the bytes of a data block (a whole number of 4-byte elements) are
\* decoded with the element type the paired status block's DPF selects (2:
\* int32, otherwise float32) into byteSize / 4 elements, on the path
\* FileBlock.parse -> parse_data as on a direct call of parse_data.
C14_DtypeFromDpf ==
    (pc \in {"direct_done", "block_done"} /\ Len(args.blockbytes) % 4 = 0) =>
        result = Ok(ExpectedArray(args.blockbytes, args.dpf))

\* what the code does: a direct call decodes by DPF
C14_DirectCallByDpf ==
    (pc = "direct_done" /\ Len(args.blockbytes) % 4 = 0) =>
        result = Ok(ExpectedArray(args.blockbytes, args.dpf))

\* what the code does: FileBlock.parse decodes as float32 whatever DPF is
C14_BlockPathFloat32 ==
    (pc = "block_done" /\ Len(args.blockbytes) % 4 = 0) =>
        result = Ok(ExpectedArray(args.blockbytes, 1))

\* ------------------------------------------------------------------------
\* params.py: Parameters(blocks), the merge of several parameter blocks
\* (block.data is the dict parse_params returned, or None: the record
\* [none, dict] with none TRUE for None)
\* ------------------------------------------------------------------------

NoData == [none |-> TRUE, dict |-> <<>>]

\* dict.update(other)
DictUpdate(d, other) ==
    [k \in (DOMAIN d) \cup (DOMAIN other) |-> IF k \in DOMAIN other THEN other[k] ELSE d[k]]

\* the loop of Parameters.__init__ over blocks[i..], entered with _params
RECURSIVE ParametersLoop(_, _, _)
ParametersLoop(blocks, i, params) ==
    IF i > Len(blocks) THEN Ok(params)
    ELSE IF blocks[i].data.none THEN Raise(TypeError)         \* update(None)
    ELSE ParametersLoop(blocks, i + 1, DictUpdate(params, blocks[i].data.dict))

\* Parameters(blocks): _params, and blocks with their data set to None (the
\* keys of each block stay in block.keys)
Parameters(blocks) ==
    LET merged == ParametersLoop(blocks, 1, EmptyDict)
    IN IF merged.exc # None THEN merged
       ELSE Ok([params |-> merged.val,
                blocks |-> [i \in 1..Len(blocks) |->
                               [keys |-> blocks[i].keys, data |-> NoData]]])

\* ------------------------------------------------------------------------
\* Specification SpecMerge: Parameters on a list of parsed parameter blocks
\* ------------------------------------------------------------------------

MaxMerge == 3

MergeKeys == {"apt", "bms"}
MergeVals == {1, 2}

\* a parsed parameter block: data is a dict, keys the list of its keys
ParamBlock(d) == [data |-> [none |-> FALSE, dict |-> d], keys |-> DOMAIN d]

ParamBlockPool ==
    UNION {{ParamBlock(d) : d \in [ks -> MergeVals]} : ks \in SUBSET MergeKeys}

InitMerge ==
    /\ pc = "merge_new"
    /\ args \in SeqsUpTo(ParamBlockPool, MaxMerge)
    /\ result = None
    /\ NoType /\ NoDir /\ NoPair /\ NoDecode

ParametersInit ==
    /\ pc = "merge_new"
    /\ result' = Parameters(args)
    /\ pc' = "merged"
    /\ UNCHANGED <<args, typeVars, dirVars, pairVars, decodeVars>>

NextMerge == ParametersInit

SpecMerge == InitMerge /\ [][NextMerge]_vars

\* C15: when two of the merged blocks contain the same key, the earlier
\* block's value is not silently replaced: it is still the value held for the
\* key, or it is still held by its block, or the merge signals the duplicate.
C15_NoSilentShadow ==
    pc = "merged" =>
        \A i, j \in 1..Len(args) : \A k \in MergeKeys :
            (i < j /\ k \in args[i].keys /\ k \in args[j].keys) =>
                \/ result.exc # None
                \/ result.val.params[k] = args[i].data.dict[k]
                \/ ~result.val.blocks[i].data.none

\* what the code does: the merge never raises on parsed blocks, each key
\* holds the value of the last block that contains it, and no block keeps
\* its data
C15_LaterBlockWins ==
    pc = "merged" =>
        /\ result.exc = None
        /\ \A i \in 1..Len(args) : result.val.blocks[i].data.none
        /\ \A i \in 1..Len(args) : \A k \in args[i].keys :
              (\A j \in (i + 1)..Len(args) : k \notin args[j].keys)
                  => result.val.params[k] = args[i].data.dict[k]

\* C16: the data keys of a decoded file are unique: two paired data blocks
\* that derive the same key from get_data_key are told apart by a suffix, so
\* data_keys holds no key twice.
C16_UniqueDataKeys ==
    (pc = "constructed" /\ opus.exc = None) =>
        \A i, j \in 1..Len(opus.val.data_keys) :
            i # j => opus.val.data_keys[i] # opus.val.data_keys[j]

\* what the code does: each key is get_data_key of its data block, as it is
C16_KeysOfPairedTypes ==
    (pc = "constructed" /\ opus.exc = None /\ opus.val.is_opus) =>
        \A i \in 1..Len(opus.val.data_keys) :
            opus.val.data_keys[i] = FileBlockInfo_get_data_key(PairsOf(file)[i][1])

\* ------------------------------------------------------------------------
\* parse.py: parse_subreport on the bytes of a subreport
\* ------------------------------------------------------------------------

\* constants.SUBREPORT_TYPE_FMT: the type codes of the numeric columns and
\* the number of bytes struct reads for each, with the element type
SUBREPORT_TYPE_FMT ==
    [c \in {1, 2, 3} |->
        IF c = 1 THEN [dtype |-> "int32", width |-> 4]
        ELSE IF c = 2 THEN [dtype |-> "float32", width |-> 4]
        ELSE [dtype |-> "float64", width |-> 8]]

TypeCodeFloat32 == 2

\* the key letter + f'{col:02}'
ColKey(letter, col) == <<letter, 48 + (col \div 10), 48 + (col % 10)>>

KeyNLN == <<110, 108, 110>>
KeyNCO == <<110, 99, 111>>
KeySIZ == <<115, 105, 122>>
KeySRC == <<115, 114, 99>>
LetterF == 102
LetterT == 116

\* the keys of info that the loops of parse_subreport read
SubreportKeys(info) ==
    IF KeyNLN \notin DOMAIN info \/ info[KeyNLN].t # "int" \/ info[KeyNLN].v <= 0
    THEN {KeyNLN}
    ELSE IF KeyNCO \notin DOMAIN info \/ info[KeyNCO].t # "int" \/ info[KeyNCO].v <= 0
    THEN {KeyNLN, KeyNCO}
    ELSE {KeyNLN, KeyNCO, KeySIZ, KeySRC}
            \cup {ColKey(LetterF, c) : c \in 0..(info[KeyNCO].v - 1)}
            \cup {ColKey(LetterT, c) : c \in 0..(info[KeyNCO].v - 1)}

\* a variant that reads every row at the offset of row 0
SubreportCell_row0(subreport_bytes, info, row, col) ==
    LET f == info[ColKey(LetterF, col)].v
        offset == info[KeySIZ].v + f
        type_code == info[ColKey(LetterT, col)].v
        size == IF col < info[KeyNCO].v - 1
                THEN MinOf(type_code - 1000, info[ColKey(LetterF, col + 1)].v - f)
                ELSE info[KeySRC].v - f
    IN IF type_code > 1000
       THEN Ok(StrVal(decode_str(size, subreport_bytes, offset)))
       ELSE IF type_code \in DOMAIN SUBREPORT_TYPE_FMT
       THEN LET fmt == SUBREPORT_TYPE_FMT[type_code]
            IN IF offset + fmt.width > Len(subreport_bytes) THEN Raise(StructError)
               ELSE Ok([t |-> fmt.dtype,
                        v |-> IF fmt.dtype = "int32"
                              THEN UnpackInt32(PySlice(subreport_bytes, offset, offset + 4))
                              ELSE PySlice(subreport_bytes, offset, offset + fmt.width)])
       ELSE Ok([t |-> "bytes", v |-> PySlice(subreport_bytes, offset, offset + size)])

\* one cell of the table: data[row][col], rows and columns counted from 0
SubreportCell(subreport_bytes, info, row, col) ==
    LET f == info[ColKey(LetterF, col)].v
        offset == info[KeySIZ].v + row * info[KeySRC].v + f
        type_code == info[ColKey(LetterT, col)].v
        size == IF col < info[KeyNCO].v - 1
                THEN MinOf(type_code - 1000, info[ColKey(LetterF, col + 1)].v - f)
                ELSE info[KeySRC].v - f
    IN IF type_code > 1000
       THEN Ok(StrVal(decode_str(size, subreport_bytes, offset)))
       ELSE IF type_code \in DOMAIN SUBREPORT_TYPE_FMT
       THEN LET fmt == SUBREPORT_TYPE_FMT[type_code]
            IN IF offset + fmt.width > Len(subreport_bytes) THEN Raise(StructError)
               ELSE Ok([t |-> fmt.dtype,
                        v |-> IF fmt.dtype = "int32"
                              THEN UnpackInt32(PySlice(subreport_bytes, offset, offset + 4))
                              ELSE PySlice(subreport_bytes, offset, offset + fmt.width)])
       ELSE Ok([t |-> "bytes", v |-> PySlice(subreport_bytes, offset, offset + size)])

\* parse_subreport(subreport_bytes): {'info': info, 'data': data}
parse_subreport(subreport_bytes) ==
    LET parsed == parse_params_bytes(subreport_bytes)
    IN IF parsed.exc # None THEN parsed
       ELSE LET info == parsed.val
                keys == SubreportKeys(info)
            IN IF keys \ DOMAIN info # {} THEN Raise(KeyError)
               ELSE IF \E k \in keys : info[k].t # "int" THEN Raise(TypeError)
               ELSE LET nln == MaxOf(info[KeyNLN].v, 0)
                        nco == IF nln = 0 THEN 0 ELSE MaxOf(info[KeyNCO].v, 0)
                        cells == [row \in 1..nln |-> [col \in 1..nco |->
                                     SubreportCell(subreport_bytes, info, row - 1, col - 1)]]
                    IN IF \E row \in 1..nln : \E col \in 1..nco : cells[row][col].exc # None
                       THEN Raise(StructError)
                       ELSE Ok([info |-> info,
                                data |-> [row \in 1..nln |-> [col \in 1..nco |->
                                             cells[row][col].val]]])

\* ------------------------------------------------------------------------
\* Specification SpecSubreport: parse_subreport on crafted subreports with a
\* string column whose declared width may differ from the bytes it is given
\* ------------------------------------------------------------------------

MaxWidth == 3
MaxRows == 2

\* struct.pack('<i', n) for n >= 0
PackInt32(n) == <<n % 256, (n \div 256) % 256, (n \div 65536) % 256, n \div 16777216>>

IntRecord(key, n) == Record(key, 0, PackInt32(n))

\* upper-case keys, as OPUS writes them
Upper(s) == [i \in 1..Len(s) |-> IF s[i] >= 97 /\ s[i] <= 122 THEN s[i] - 32 ELSE s[i]]

\* a column of a crafted subreport: its type code and the bytes of its cell
\* in each row
StrColumn(declared, cell) == [type_int |-> 1000 + declared, cell |-> cell]
FloatColumn == [type_int |-> TypeCodeFloat32, cell |-> <<0, 0, 128, 63>>]

\* the cell of a string column given sp bytes: the letters A, B, ... with a
\* zero byte at index z (from 0) and after it, none when z = sp
StrCell(sp, z) == [i \in 1..sp |-> IF i > z THEN 0 ELSE 64 + i]

\* the byte offset of column c (from 0) within a row
ColOffset(cols, c) == Len(Flatten([i \in 1..c |-> cols[i].cell]))

\* the bytes of a subreport with the columns cols and nln equal rows
SubreportBytes(cols, nln) ==
    LET row == Flatten([i \in 1..Len(cols) |-> cols[i].cell])
        descr == Flatten([i \in 1..Len(cols) |->
                    RecordBytes(IntRecord(Upper(ColKey(LetterF, i - 1)), ColOffset(cols, i - 1)))
                    \o RecordBytes(IntRecord(Upper(ColKey(LetterT, i - 1)), cols[i].type_int))])
        siz == 4 * 12 + Len(descr) + 8
        mini == RecordBytes(IntRecord(Upper(KeyNCO), Len(cols)))
                \o RecordBytes(IntRecord(Upper(KeyNLN), nln))
                \o RecordBytes(IntRecord(Upper(KeySIZ), siz))
                \o RecordBytes(IntRecord(Upper(KeySRC), Len(row)))
                \o descr \o KeyEND \o <<0, 0, 0, 0, 0>>
    IN mini \o Flatten([r \in 1..nln |-> row])

Layouts == {"str_float", "float_str", "str", "str_str"}

Columns(layout, s) ==
    IF layout = "str_float" THEN <<s, FloatColumn>>
    ELSE IF layout = "float_str" THEN <<FloatColumn, s>>
    ELSE IF layout = "str" THEN <<s>>
    ELSE <<s, s>>

InitSubreport ==
    /\ pc = "subreport_new"
    /\ \E declared \in 1..MaxWidth, sp \in 1..(MaxWidth + 1), nln \in 1..MaxRows,
          layout \in Layouts :
       \E z \in 0..sp :
          LET cols == Columns(layout, StrColumn(declared, StrCell(sp, z)))
          IN args = [cols |-> cols, nln |-> nln,
                     subreport_bytes |-> SubreportBytes(cols, nln)]
    /\ result = None
    /\ NoType /\ NoDir /\ NoPair /\ NoDecode

ParseSubreport ==
    /\ pc = "subreport_new"
    /\ result' = parse_subreport(args.subreport_bytes)
    /\ pc' = "subreport_done"
    /\ UNCHANGED <<args, typeVars, dirVars, pairVars, decodeVars>>

NextSubreport == ParseSubreport

SpecSubreport == InitSubreport /\ [][NextSubreport]_vars

\* s is a prefix of q
IsPrefix(s, q) == Len(s) <= Len(q) /\ \A i \in 1..Len(s) : s[i] = q[i]

\* C17: parse_subreport does not fail, and every cell of a string column
\* (type code t > 1000) has at most t - 1000 characters, all of them read
\* from the bytes of its own cell (up to the next column's offset, or the end
\* of the row for the last column), whether or not the declared width agrees
\* with the column spacing.
C17_StringCellsClamped ==
    pc = "subreport_done" =>
        /\ result.exc = None
        /\ \A row \in 1..args.nln : \A col \in 1..Len(args.cols) :
              args.cols[col].type_int > 1000 =>
                 LET cell == result.val.data[row][col]
                 IN /\ cell.t = "str"
                    /\ Len(cell.v) <= args.cols[col].type_int - 1000
                    /\ IsPrefix(cell.v, args.cols[col].cell)

\* what the code does: a string cell before the last column is clamped to the
\* declared width and to the spacing, the last column only to the row end
C17_LastColumnUnclamped ==
    pc = "subreport_done" =>
        /\ result.exc = None
        /\ \A row \in 1..args.nln : \A col \in 1..Len(args.cols) :
              args.cols[col].type_int > 1000 =>
                 LET cell == result.val.data[row][col]
                 IN /\ cell.t = "str"
                    /\ IsPrefix(cell.v, args.cols[col].cell)
                    /\ col < Len(args.cols) =>
                          Len(cell.v) <= args.cols[col].type_int - 1000

\* nco = 2, nln = 1, t00 = 1003 and a float column: one row holding a
\* 3-character string and the float
C17_ExampleRow ==
    (pc = "subreport_done"
        /\ args.nln = 1 /\ Len(args.cols) = 2
        /\ args.cols[1].type_int = 1003 /\ args.cols[2] = FloatColumn
        /\ \A i \in 1..3 : i <= Len(args.cols[1].cell) /\ args.cols[1].cell[i] # 0) =>
        /\ result.exc = None
        /\ Len(result.val.data) = 1
        /\ result.val.data[1][1] = StrVal(<<65, 66, 67>>)
        /\ result.val.data[1][2].t = "float32"
        /\ result.val.data[1][2].v = <<0, 0, 128, 63>>

\* the blocks FileDirectory holds after block.parse() ran on each of them
ParsedBlocks(d) == Range(d.blocks) \cup Range(d.parse_error_blocks)

\* C18: after FileBlock.parse (debug False): a parser that was selected and
\* succeeded leaves its name in parser, parse_error None and bytes empty; a
\* parser that raised leaves parse_error set, parser None, data None and the
\* bytes retained; with no parser for the type, parser, parse_error and data
\* are None and the bytes retained. parser and parse_error are never both set.
C18_ParseOutcome ==
    (pc = "dir_built" /\ directory.exc = None) =>
        \A b \in ParsedBlocks(directory.val) :
            LET b0 == FileBlock(b.type, b.size, b.start)
                selected == get_parser(b0)
            IN /\ ~(b.parser # None /\ b.parse_error # None)
               /\ IF selected = None
                  THEN /\ b.parser = None /\ b.parse_error = None
                       /\ b.kind = "none" /\ b.bytes = "raw"
                  ELSE IF RunParser(file, b0, selected).exc = None
                  THEN /\ b.parser = selected /\ b.parse_error = None
                       /\ b.kind # "none" /\ b.bytes = "empty"
                  ELSE /\ b.parse_error # None /\ b.parser = None
                       /\ b.kind = "none" /\ b.bytes = "raw"

\* one directory holds a block that was parsed, a block whose parser raised
\* and a block of a type without parser
C18_Witness ==
    /\ pc = "dir_built" /\ directory.exc = None
    /\ \E b \in Range(directory.val.blocks) : b.parser # None /\ b.bytes = "empty"
    /\ \E b \in Range(directory.val.blocks) : get_parser(b) = None /\ b.bytes = "raw"
    /\ \E b \in Range(directory.val.parse_error_blocks) : b.parser = None /\ b.bytes = "raw"

\* ------------------------------------------------------------------------
\* Specification SpecMatch: the type stage of pair_data_and_status_blocks on
\* blocks whose types differ from a data block's or a data status block's
\* type in at most one field
\* ------------------------------------------------------------------------

MaxTypeBlocks == 3

\* the value a field takes when it is changed
OtherField(t, i) == IF i = 3 THEN (IF t[i] = 1 THEN 2 ELSE 1)
                    ELSE IF i = 6 THEN (IF t[i] = 0 THEN 4 ELSE 0)
                    ELSE t[i] + 1

TypeVariants ==
    {TypeData, TypeDataStatus}
        \cup {[t EXCEPT ![i] = OtherField(t, i)] : t \in {TypeData, TypeDataStatus}, i \in 1..6}

\* a block of type t as FileDirectory leaves it after parsing
BlockOfType(t) ==
    IF t[3] > 0 THEN ParsedParams(t, 0, ParamKeys, [npt |-> 1, csf |-> 1, mny |-> 1, mxy |-> 1])
    ELSE ParsedData(t, 0, <<1>>)

InitMatch ==
    /\ pc = "match_new"
    /\ \E ts \in SeqsUpTo(TypeVariants, MaxTypeBlocks) :
          args = Place([i \in 1..Len(ts) |-> BlockOfType(ts[i])], 0)
    /\ result = None
    /\ NoType /\ NoDir /\ NoPair /\ NoDecode

\* lines 304-308 of pair_data_and_status_blocks: the candidates of each data block
TypeMatchStage ==
    /\ pc = "match_new"
    /\ result' = TypeMatches(args)
    /\ pc' = "match_done"
    /\ UNCHANGED <<args, typeVars, dirVars, pairVars, decodeVars>>

NextMatch == TypeMatchStage

SpecMatch == InitMatch /\ [][NextMatch]_vars

\* the two type tuples are equal at positions 0, 1, 3, 4 and 5
SameButStatusLevel(t1, t2) == \A i \in {0, 1, 3, 4, 5} : t1[i + 1] = t2[i + 1]

\* C19: is_data_status_type_match is true exactly when the type tuples agree
\* at positions 0, 1, 3, 4 and 5, and the candidates collected for a data
\* block are exactly the data status blocks (type[2] = 1) that satisfy it,
\* in the order of the block list.
C19_TypeMatch ==
    pc = "match_done" =>
        /\ \A d, b \in Range(args) :
              is_data_status_type_match(d, b) <=> SameButStatusLevel(d.type, b.type)
        /\ \A i \in 1..Len(result) :
              result[i][2] = SelectSeq(args, LAMBDA b :
                                 T(b, 2) = 1 /\ SameButStatusLevel(result[i][1].type, b.type))

\* a data block has one candidate while another data status block, which
\* differs from it in type[1] only, is not a candidate
C19_Witness ==
    /\ pc = "match_done"
    /\ \E i \in 1..Len(result) :
          /\ Len(result[i][2]) = 1
          /\ \E b \in Range(args) :
                /\ T(b, 2) = 1
                /\ T(b, 1) # T(result[i][1], 1)
                /\ \A k \in {0, 3, 4, 5} : T(b, k) = T(result[i][1], k)
                /\ b \notin Range(result[i][2])

\* ------------------------------------------------------------------------
\* Specification SpecVal: the value-range stage of
\* pair_data_and_status_blocks on a data block with two candidates
\* ------------------------------------------------------------------------

RangeKeys == {"npt", "csf", "mny", "mxy"}

\* a data block whose data is None
UnparsedData(t, start) == FileBlock(t, 4, start)

ValDataPool ==
    {ParsedData(TypeData, 0, a) : a \in Arrays}
        \cup {ParsedSeries(TypeSeries, 0), UnparsedData(TypeData, 0)}

\* the status parameters of the candidate under study: all four keys or all
\* but one, npt in 0..MaxLen + 1
ValStatusPool(t) ==
    {ParsedParams(t, 0, ParamKeys \ missing,
                  [npt |-> n, csf |-> c, mny |-> lo, mxy |-> hi]) :
        missing \in {{}} \cup {{k} : k \in RangeKeys},
        n \in 0..(MaxLen + 1), c \in {1, 2}, lo \in {1, 2}, hi \in {1, 2, 4}}

InitVal ==
    /\ pc = "val_new"
    /\ \E d \in ValDataPool :
          LET t == [d.type EXCEPT ![3] = 1]
          IN \E st \in ValStatusPool(t) :
                args = Place(<<d, st, ParsedParams(t, 0, ParamKeys,
                                        [npt |-> 1, csf |-> 1, mny |-> 1, mxy |-> 1])>>, 0)
    /\ result = None
    /\ NoType /\ NoDir /\ NoPair /\ NoDecode

\* lines 304-313 of pair_data_and_status_blocks: the candidates that the
\* value-range check leaves to each data block with several type matches
ValMatchStage ==
    /\ pc = "val_new"
    /\ result' = ValMatches(Multis(TypeMatches(args)))
    /\ pc' = "val_done"
    /\ UNCHANGED <<args, typeVars, dirVars, pairVars, decodeVars>>

NextVal == ValMatchStage

SpecVal == InitVal /\ [][NextVal]_vars

\* csf times the first npt samples of data block d (npt >= 1, d long enough)
ScaledHead(d, st) == Scale(st.val["csf"], SubSeq(d.arr, 1, st.val["npt"]))

\* C20: the value-range stage excludes a candidate only when the check is
\* computed and fails (the data are shorter than npt, or the scaled min or
\* max differs from mny or mxy); when computing it raises (data None, a key
\* the check reads is absent, min of no samples) the candidate is kept, as it
\* is when the check passes; a data series block keeps every candidate.
C20_ExcludedOnlyOnFailure ==
    pc = "val_done" =>
        LET d == args[1]
            st == args[2]
            kept == st \in Range(result[1][2])
            has(k) == k \in st.has
            npt == st.val["npt"]
            long == Len(d.arr) >= npt /\ npt >= 1
        IN /\ Len(result) = 1
           /\ ~kept =>
                 /\ is_data(d) /\ d.kind = "array" /\ has("npt")
                 /\ \/ Len(d.arr) < npt
                    \/ long /\ has("csf") /\ has("mny")
                         /\ SeqMin(ScaledHead(d, st)) # st.val["mny"]
                    \/ long /\ has("csf") /\ has("mny") /\ has("mxy")
                         /\ SeqMax(ScaledHead(d, st)) # st.val["mxy"]
           /\ ~is_data(d) => kept
           /\ d.kind = "none" => kept
           /\ ~has("npt") => kept
           /\ (has("npt") /\ Len(d.arr) >= npt /\ ~has("csf")) => kept
           /\ (has("npt") /\ npt = 0) => kept
           /\ (has("npt") /\ Len(d.arr) >= npt /\ ~has("mny")) => kept
           /\ (has("npt") /\ long /\ has("csf") /\ has("mny") /\ ~has("mxy")
                 /\ SeqMin(ScaledHead(d, st)) = st.val["mny"]) => kept
           /\ (RangeKeys \subseteq st.has /\ long
                 /\ SeqMin(ScaledHead(d, st)) = st.val["mny"]
                 /\ SeqMax(ScaledHead(d, st)) = st.val["mxy"]) => kept

\* a candidate without mny was kept for a 1-D data block that has npt samples
\* and whose scaled max differs from mxy
C20_Witness ==
    /\ pc = "val_done"
    /\ is_data(args[1]) /\ args[1].kind = "array"
    /\ "mny" \notin args[2].has /\ RangeKeys \ {"mny"} \subseteq args[2].has
    /\ args[2].val["npt"] >= 1 /\ Len(args[1].arr) >= args[2].val["npt"]
    /\ SeqMax(ScaledHead(args[1], args[2])) # args[2].val["mxy"]
    /\ args[2] \in Range(result[1][2])

\* ------------------------------------------------------------------------
\* Specification SpecCross: the cross-exclusion stage of
\* pair_data_and_status_blocks on 1-D data blocks of one type that share
\* their data status blocks
\* ------------------------------------------------------------------------

MaxCross == 3

\* 1-D data blocks with the samples (1), (2) and (1, 2)
CrossDataPool == {ParsedData(TypeData, 0, a) : a \in {<<1>>, <<2>>, <<1, 2>>}}

\* data status blocks that describe (1), (2) and (1, 2), and one without mny,
\* which the value-range check keeps for every data block
CrossStatusPool ==
    {ParsedParams(TypeDataStatus, 0, ParamKeys, v) :
        v \in {[npt |-> 1, csf |-> 1, mny |-> 1, mxy |-> 1],
               [npt |-> 1, csf |-> 1, mny |-> 2, mxy |-> 2],
               [npt |-> 2, csf |-> 1, mny |-> 1, mxy |-> 2]}}
    \cup {ParsedParams(TypeDataStatus, 0, ParamKeys \ {"mny"},
                       [npt |-> 1, csf |-> 1, mny |-> 0, mxy |-> 1])}

InitCross ==
    /\ pc = "cross_new"
    /\ \E ds \in SeqsUpTo(CrossDataPool, MaxCross) :
       \E ss \in SeqsUpTo(CrossStatusPool, MaxCross) :
          /\ Len(ds) >= 1 /\ Len(ss) >= 1
          /\ args = Place(ds, 0) \o Place(ss, 1000)
    /\ result = None
    /\ NoType /\ NoDir /\ NoPair /\ NoDecode

\* lines 304-321 of pair_data_and_status_blocks: the lists as they are after
\* the value-range stage (single2, multi2) and after the cross-exclusion
\* stage (reduced, single3, multi3)
CrossStage ==
    /\ pc = "cross_new"
    /\ LET type_matches == TypeMatches(args)
           val_matches == ValMatches(Multis(type_matches))
           single2 == Singles(type_matches) \o Singles(val_matches)
           multi2 == Multis(val_matches)
           reduced_matches == ReducedMatches(multi2, single2)
       IN result' = [single2 |-> single2, multi2 |-> multi2,
                     reduced |-> reduced_matches,
                     single3 |-> single2 \o Singles(reduced_matches),
                     multi3 |-> Multis(reduced_matches)]
    /\ pc' = "cross_done"
    /\ UNCHANGED <<args, typeVars, dirVars, pairVars, decodeVars>>

NextCross == CrossStage

SpecCross == InitCross /\ [][NextCross]_vars

\* the status blocks that the single matches of list ps have consumed
Consumed(ps) == {ps[i][2] : i \in 1..Len(ps)}

\* the pairs that the cross-exclusion stage added
CrossPairs == {result.single3[i] : i \in (Len(result.single2) + 1)..Len(result.single3)}

\* C21: for each data block with more than one candidate after the
\* value-range stage, the cross-exclusion stage removes exactly the
\* candidates that a single match of the type stage or of the value-range
\* stage has consumed, and pairs the data block if and only if exactly one
\* candidate remains (with that candidate); candidates consumed by the pairs
\* this stage adds are not removed from the sets that stay multiple.
C21_CrossExclusion ==
    pc = "cross_done" =>
        /\ Len(result.reduced) = Len(result.multi2)
        /\ SubSeq(result.single3, 1, Len(result.single2)) = result.single2
        /\ \A i \in 1..Len(result.multi2) :
              LET d == result.multi2[i][1]
                  before == result.multi2[i][2]
                  after == result.reduced[i][2]
              IN /\ Len(before) > 1
                 /\ result.reduced[i][1] = d
                 /\ Range(after) = Range(before) \ Consumed(result.single2)
                 /\ (\E p \in CrossPairs : p[1] = d) <=> Len(after) = 1
                 /\ Len(after) = 1 => <<d, after[1]>> \in CrossPairs
                 /\ Len(after) > 1 => <<d, after>> \in Range(result.multi3)
        /\ \A p \in CrossPairs : \E i \in 1..Len(result.multi2) : result.multi2[i][1] = p[1]

\* a data block was paired by cross-exclusion, and another keeps several
\* candidates, one of them consumed by a pair that this stage added
C21_Witness ==
    /\ pc = "cross_done"
    /\ CrossPairs # {}
    /\ \E m \in Range(result.multi3) : Range(m[2]) \cap Consumed(result.single3) # {}

\* ------------------------------------------------------------------------
\* Specification SpecPerm: pair_data_and_status_blocks on a block list in
\* any order, next to its result on the same blocks in file order
\* ------------------------------------------------------------------------

MaxPerm == 4

\* 1-D data blocks of one type with the samples (1) and (2); data status
\* blocks of the matching type that describe (1), that lack mny (kept by the
\* value-range check for every data block) and that lack npt
PermPool ==
    {ParsedData(TypeData, 0, <<1>>), ParsedData(TypeData, 0, <<2>>),
     ParsedParams(TypeDataStatus, 0, ParamKeys, [npt |-> 1, csf |-> 1, mny |-> 1, mxy |-> 1]),
     ParsedParams(TypeDataStatus, 0, ParamKeys \ {"mny"}, [npt |-> 1, csf |-> 1, mny |-> 0, mxy |-> 1]),
     ParsedParams(TypeDataStatus, 0, ParamKeys \ {"npt"}, [npt |-> 0, csf |-> 1, mny |-> 1, mxy |-> 1])}

\* the blocks of list bs by ascending start offset (offsets 100, 200, ...)
ByStart(bs) == [j \in 1..Len(bs) |-> CHOOSE b \in Range(bs) : b.start = 100 * j]

\* block_list holds the blocks in any order, args the same blocks by offset
InitPerm ==
    /\ pc = "perm_call"
    /\ \E bs \in SeqsUpTo(PermPool, MaxPerm) : \E p \in Permutations(1..Len(bs)) :
          /\ block_list = [i \in 1..Len(bs) |-> [bs[i] EXCEPT !.start = 100 * p[i]]]
          /\ args = ByStart([i \in 1..Len(bs) |-> [bs[i] EXCEPT !.start = 100 * p[i]]])
    /\ single_matches = None
    /\ result = None
    /\ NoType /\ NoDir /\ NoDecode

PairBoth ==
    /\ pc = "perm_call"
    /\ single_matches' = pair_data_and_status_blocks(block_list)
    /\ result' = pair_data_and_status_blocks(args)
    /\ pc' = "perm_done"
    /\ UNCHANGED <<block_list, args, typeVars, dirVars, decodeVars>>

NextPerm == PairBoth

SpecPerm == InitPerm /\ [][NextPerm]_vars

\* C22: the returned pairs are in descending order of the data block's
\* start offset, whatever the order of the input list.
C22_DescendingStart ==
    (pc = "perm_done" /\ single_matches.exc = None) =>
        \A i \in 1..(Len(single_matches.val) - 1) :
            single_matches.val[i][1].start >= single_matches.val[i + 1][1].start

\* two pairs were returned for a list that holds their data blocks in
\* ascending order of start offset
C22_Witness ==
    /\ pc = "perm_done"
    /\ single_matches.exc = None
    /\ Len(single_matches.val) = 2
    /\ \E i, j \in 1..Len(block_list) :
          /\ i < j
          /\ block_list[i] = single_matches.val[2][1]
          /\ block_list[j] = single_matches.val[1][1]
          /\ block_list[i].start < block_list[j].start

\* C25: no data block and no data status block is in more than one
\* returned pair.
C25_OneToOne ==
    (pc = "perm_done" /\ single_matches.exc = None) =>
        \A i, j \in 1..Len(single_matches.val) :
            i # j => /\ single_matches.val[i][1] # single_matches.val[j][1]
                     /\ single_matches.val[i][2] # single_matches.val[j][2]

\* what the code does: no data block is in more than one returned pair
C25_DataBlockOnce ==
    (pc = "perm_done" /\ single_matches.exc = None) =>
        \A i, j \in 1..Len(single_matches.val) :
            i # j => single_matches.val[i][1] # single_matches.val[j][1]

\* C29: on blocks with distinct start offsets the outcome (the returned list
\* of pairs, or the exception) is the same for every order of the input list.
C29_OrderIndependent ==
    pc = "perm_done" => single_matches = result

\* a list that is not in file order, with several candidates for a data
\* block, gave two pairs
C29_Witness ==
    /\ pc = "perm_done"
    /\ block_list # args
    /\ single_matches.exc = None
    /\ Len(single_matches.val) = 2
    /\ \E m \in Range(TypeMatches(block_list)) : Len(m[2]) > 1

\* ------------------------------------------------------------------------
\* Specification SpecTable: parse_subreport on subreports whose data bytes
\* all differ, with padding after the mini parameter block, between the
\* columns and at the end of each row
\* ------------------------------------------------------------------------

MaxCols == 2

TypeCodeInt32 == 1

\* the byte at position p (from 0) of the data region
RegionByte(p) == p + 1

RECURSIVE TableF(_, _)
\* f{c}: the offset of column c (from 0) within a row; a column is 4 bytes
\* wide (int32) or 2 (a string), with g.gap bytes between columns
TableF(g, c) ==
    IF c = 0 THEN 0
    ELSE TableF(g, c - 1) + (IF g.types[c] = TypeCodeInt32 THEN 4 ELSE 2) + g.gap

\* src: the size of a row, g.rowpad bytes longer than its columns
TableSrc(g) == TableF(g, Len(g.types)) - g.gap + g.rowpad

TableDescr(g) ==
    Flatten([i \in 1..Len(g.types) |->
        RecordBytes(IntRecord(Upper(ColKey(LetterF, i - 1)), TableF(g, i - 1)))
        \o RecordBytes(IntRecord(Upper(ColKey(LetterT, i - 1)), g.types[i]))])

\* siz: the size of the mini parameter block, g.pad bytes after its END record
TableSiz(g) == 4 * 12 + Len(TableDescr(g)) + 8 + g.pad

TableBytes(g) ==
    RecordBytes(IntRecord(Upper(KeyNCO), Len(g.types)))
        \o RecordBytes(IntRecord(Upper(KeyNLN), g.nln))
        \o RecordBytes(IntRecord(Upper(KeySIZ), TableSiz(g)))
        \o RecordBytes(IntRecord(Upper(KeySRC), TableSrc(g)))
        \o TableDescr(g) \o KeyEND \o <<0, 0, 0, 0, 0>>
        \o [i \in 1..g.pad |-> 0]
        \o [i \in 1..(g.nln * TableSrc(g)) |-> RegionByte(i - 1)]

InitTable ==
    /\ pc = "table_new"
    /\ \E types \in SeqsUpTo({TypeCodeInt32, 1002}, MaxCols) \ {<<>>} :
       \E nln \in 0..MaxRows, gap \in {0, 1}, rowpad \in {0, 1, 3}, pad \in {0, 1, 2} :
          LET g == [types |-> types, nln |-> nln, gap |-> gap, rowpad |-> rowpad, pad |-> pad]
          IN args = [g |-> g, subreport_bytes |-> TableBytes(g)]
    /\ result = None
    /\ NoType /\ NoDir /\ NoPair /\ NoDecode

ParseTable ==
    /\ pc = "table_new"
    /\ result' = parse_subreport(args.subreport_bytes)
    /\ pc' = "table_done"
    /\ UNCHANGED <<args, typeVars, dirVars, pairVars, decodeVars>>

NextTable == ParseTable

SpecTable == InitTable /\ [][NextTable]_vars

\* C23: the table has nln rows of nco cells, and the cell of column cc in
\* row r is decoded from the bytes that start at siz + r*src + f{cc}: an
\* int32 cell is the integer held by the four bytes there, a string cell
\* starts with the byte there.
C23_TableCells ==
    pc = "table_done" =>
        LET g == args.g
        IN /\ result.exc = None
           /\ Len(result.val.data) = g.nln
           /\ \A r \in 0..(g.nln - 1) :
                 /\ Len(result.val.data[r + 1]) = Len(g.types)
                 /\ \A cc \in 0..(Len(g.types) - 1) :
                       LET cell == result.val.data[r + 1][cc + 1]
                           at == r * TableSrc(g) + TableF(g, cc)
                       IN /\ args.subreport_bytes[TableSiz(g) + at + 1] = RegionByte(at)
                          /\ IF g.types[cc + 1] = TypeCodeInt32
                             THEN /\ cell.t = "int32"
                                  /\ cell.v = UnpackInt32(<<RegionByte(at), RegionByte(at + 1),
                                                            RegionByte(at + 2), RegionByte(at + 3)>>)
                             ELSE /\ cell.t = "str"
                                  /\ Len(cell.v) >= 1
                                  /\ cell.v[1] = RegionByte(at)

\* a table of two rows and two columns was returned, from rows with padding
C23_Witness ==
    /\ pc = "table_done"
    /\ result.exc = None
    /\ args.g.nln = 2 /\ Len(args.g.types) = 2
    /\ args.g.rowpad > 0 /\ args.g.gap > 0 /\ args.g.pad > 0
    /\ Len(result.val.data) = 2 /\ Len(result.val.data[2]) = 2

\* ------------------------------------------------------------------------
\* Specification SpecSteps: a decode step by step: FileDirectory.__init__
\* enumerates the directory, parses one block per loop iteration and returns;
\* then the blocks it kept are paired
\* ------------------------------------------------------------------------

MaxStepBlocks == 3

StepPool ==
    { Item(TypeData, RawData(<<1>>, 0)),
      Item(TypeData, RawData(<<1, 1>>, 1)),
      Item(TypeDataStatus, RawParams(ParamKeys, StatusVal, 0)),
      Item(TypeDataStatus, RawParams(ParamKeys, [StatusVal EXCEPT !.npt = 1], 0)),
      Item(TypeDataStatus, RawParams(ParamKeys, StatusVal, 4)),
      Item(TypeUnknown, RawOther(FALSE)),
      Sentinel }

InitSteps ==
    /\ pc = "steps_new"
    /\ \E q \in SeqsUpTo(StepPool, MaxStepBlocks) : file = WholeFile(q, MaxStepBlocks)
    /\ filebytes = None /\ directory = None /\ opus = None /\ truthy = None
    /\ args = None /\ result = None
    /\ NoType /\ NoDir /\ NoPair

\* lines 28-33 of FileDirectory.__init__: the header, the empty lists and the
\* entries that the for loop will visit (args.en), none visited yet
EnterLoop ==
    /\ pc = "steps_new"
    /\ parse_header(file).exc = None /\ Enumerate(file).exc = None
    /\ args' = [en |-> Enumerate(file).val, i |-> 1]
    /\ directory' = Ok([blocks |-> <<>>, parse_error_blocks |-> <<>>])
    /\ pc' = "steps_loop"
    /\ UNCHANGED <<file, filebytes, opus, truthy, result, typeVars, dirVars, pairVars>>

\* a variant of the loop exit that may leave before the last entry
LoopExit_early ==
    /\ pc = "steps_loop"
    /\ pc' = "steps_built"
    /\ UNCHANGED <<file, filebytes, directory, opus, truthy, callVars, typeVars, dirVars, pairVars>>

\* lines 34-39: one iteration of the for loop
ParseBlock ==
    /\ pc = "steps_loop"
    /\ args.i <= Len(args.en)
    /\ LET e == args.en[args.i]
           block == parse(file, FileBlock(e[1], e[2], e[3]))
       IN directory' =
             IF block.parse_error # None
             THEN Ok([directory.val EXCEPT
                        !.parse_error_blocks = Append(directory.val.parse_error_blocks, block)])
             ELSE Ok([directory.val EXCEPT !.blocks = Append(directory.val.blocks, block)])
    /\ args' = [args EXCEPT !.i = args.i + 1]
    /\ UNCHANGED <<pc, file, filebytes, opus, truthy, result, typeVars, dirVars, pairVars>>

\* the for loop is exhausted and __init__ returns
LoopExit ==
    /\ pc = "steps_loop"
    /\ args.i > Len(args.en)
    /\ pc' = "steps_built"
    /\ UNCHANGED <<file, filebytes, directory, opus, truthy, callVars, typeVars, dirVars, pairVars>>

\* pair_data_and_status_blocks(directory.blocks), called with the directory
\* that FileDirectory(filebytes) returned
PairStep ==
    /\ pc = "steps_built"
    /\ result' = pair_data_and_status_blocks(directory.val.blocks)
    /\ pc' = "steps_paired"
    /\ UNCHANGED <<args, file, filebytes, directory, opus, truthy, typeVars, dirVars, pairVars>>

NextSteps == EnterLoop \/ ParseBlock \/ LoopExit \/ PairStep

SpecSteps == InitSteps /\ [][NextSteps]_vars

MaxIter == 4

\* one pass through the body of the while loop, entered with loc < len:
\* the exit by END or by an exception (done, out), or the next loc and params
ParamsIter(blockbytes, loc, params) ==
    LET key == DecodeUtf8(PySlice(blockbytes, loc, loc + 3))
        head == PySlice(blockbytes, loc + 4, loc + 8)
    IN IF key.exc # None THEN [done |-> TRUE, out |-> key, loc |-> loc, params |-> params]
       ELSE IF key.val = KeyEND
       THEN [done |-> TRUE, out |-> Ok(params), loc |-> loc, params |-> params]
       ELSE IF Len(head) < 4
       THEN [done |-> TRUE, out |-> Raise(StructError), loc |-> loc, params |-> params]
       ELSE LET dtype_code == UnpackInt16(PySlice(head, 0, 2))
                val_size == UnpackInt16(PySlice(head, 2, 4)) * 2
                width == IF dtype_code = 0 THEN 4 ELSE IF dtype_code = 1 THEN 8 ELSE 0
            IN IF loc + 8 + width > Len(blockbytes)
               THEN [done |-> TRUE, out |-> Raise(StructError), loc |-> loc, params |-> params]
               ELSE LET val == IF dtype_code = 0
                               THEN IntVal(UnpackInt32(PySlice(blockbytes, loc + 8, loc + 12)))
                               ELSE IF dtype_code = 1
                               THEN FloatVal(PySlice(blockbytes, loc + 8, loc + 16))
                               ELSE StrVal(decode_str(val_size, blockbytes, loc + 8))
                    IN [done |-> FALSE, out |-> Ok(params), loc |-> loc + val_size + 8,
                        params |-> DictSet(params, Lower(key.val), val)]

\* struct.pack('<h', n) for -32768 <= n < 32768
PackInt16Signed(n) == PackInt16((n + 65536) % 65536)

\* a record with the key ABC, a 4-byte value and the given size field
SizedRecord(dtype_code, size) ==
    <<65, 66, 67, 0>> \o PackInt16(dtype_code) \o PackInt16Signed(size) \o <<49, 50, 51, 0>>

\* size fields: the true size of the value (2 words), 0, and -4, which makes
\* loc + val_size + 8 equal to loc
SizeSamples == {2, 0, -4}

InitLoop ==
    /\ pc = "pp_loop"
    /\ \E recs \in SeqsUpTo({SizedRecord(c, z) : c \in {0, 2}, z \in SizeSamples}, MaxRecords) :
       \E end \in BOOLEAN :
          args = Flatten(recs) \o (IF end THEN KeyEND \o <<0, 0, 0, 0, 0>> ELSE <<>>)
    /\ result = [loc |-> 0, params |-> EmptyDict, n |-> 0, out |-> Ok(EmptyDict)]
    /\ NoType /\ NoDir /\ NoPair /\ NoDecode

\* an iteration that leaves by break or by an exception
ParamsBreak ==
    /\ pc = "pp_loop"
    /\ result.loc < Len(args)
    /\ ParamsIter(args, result.loc, result.params).done
    /\ result' = [result EXCEPT !.out = ParamsIter(args, result.loc, result.params).out,
                                !.n = result.n + 1]
    /\ pc' = "pp_done"
    /\ UNCHANGED <<args, typeVars, dirVars, pairVars, decodeVars>>

\* an iteration that stores a value and moves loc (at most MaxIter are followed)
ParamsStep ==
    /\ pc = "pp_loop"
    /\ result.loc < Len(args)
    /\ result.n < MaxIter
    /\ ~ParamsIter(args, result.loc, result.params).done
    /\ LET it == ParamsIter(args, result.loc, result.params)
       IN result' = [loc |-> it.loc, params |-> it.params, n |-> result.n + 1, out |-> it.out]
    /\ UNCHANGED <<pc, args, typeVars, dirVars, pairVars, decodeVars>>

\* the loop condition fails: return params
ParamsReturn ==
    /\ pc = "pp_loop"
    /\ ~(result.loc < Len(args))
    /\ result' = [result EXCEPT !.out = Ok(result.params)]
    /\ pc' = "pp_done"
    /\ UNCHANGED <<args, typeVars, dirVars, pairVars, decodeVars>>

NextLoop == ParamsBreak \/ ParamsStep \/ ParamsReturn

SpecLoop == InitLoop /\ [][NextLoop]_vars

\* C26: every iteration of the loop of parse_params that does not leave the
\* loop strictly increases the read position, also when the size field of
\* the record is zero or negative (so the loop ends on every finite buffer).
C26_ReadPositionIncreases ==
    [][(pc = "pp_loop" /\ pc' = "pp_loop") => result'.loc > result.loc]_vars

\* what the code does: the read position moves by 8 + 2 * size, which is an
\* increase exactly when the size field is greater than -4
C26_MovesBySizeField ==
    [][(pc = "pp_loop" /\ pc' = "pp_loop") =>
          LET size == UnpackInt16(PySlice(args, result.loc + 6, result.loc + 8))
          IN /\ result'.loc = result.loc + 8 + 2 * size
             /\ result'.loc > result.loc <=> size > -4]_vars

\* what the code does: on a record with the size field -4 the loop comes
\* back to the same read position with the same params
C26_SamePositionAgain ==
    [][(pc = "pp_loop" /\ pc' = "pp_loop"
          /\ UnpackInt16(PySlice(args, result.loc + 6, result.loc + 8)) = -4
          /\ result.n >= 1 /\ result.loc = 0) =>
              (result'.loc = result.loc /\ result'.params = result.params)]_vars

\* ------------------------------------------------------------------------
\* Specification SpecClass: the classifier predicates and get_parser on
\* type tuples within the field ranges of get_block_type
\* ------------------------------------------------------------------------

\* per field of the type tuple, its least and greatest value and every value
\* that a predicate compares it with, and a neighbour of each
ClassFieldSamples ==
    << {0, 1, 3}, {0, 1, 2, 3}, {0, 1, 2, 63}, {0, 1, 12, 13, 14, 127},
       {0, 3}, {0, 1, 2, 3, 4, 5, 6, 7} >>

InitClass ==
    /\ pc = "class_new"
    /\ \E t0 \in ClassFieldSamples[1], t1 \in ClassFieldSamples[2], t2 \in ClassFieldSamples[3],
          t3 \in ClassFieldSamples[4], t4 \in ClassFieldSamples[5], t5 \in ClassFieldSamples[6] :
          args = FileBlock(<<t0, t1, t2, t3, t4, t5>>, 8, 100)
    /\ result = None
    /\ NoType /\ NoDir /\ NoPair /\ NoDecode

\* block.get_parser(), next to what each predicate returns for the block
Classify ==
    /\ pc = "class_new"
    /\ result' = [parser |-> get_parser(args),
                  is_directory |-> is_directory(args), is_file_log |-> is_file_log(args),
                  is_param |-> is_param(args), is_report |-> is_report(args),
                  is_data_series |-> is_data_series(args), is_data |-> is_data(args),
                  is_data_status |-> is_data_status(args), is_rf_param |-> is_rf_param(args),
                  is_sm_param |-> is_sm_param(args)]
    /\ pc' = "classified"
    /\ UNCHANGED <<args, typeVars, dirVars, pairVars, decodeVars>>

NextClass == Classify

SpecClass == InitClass /\ [][NextClass]_vars

\* the parsers whose predicate holds for the classified block
ParsersByPredicate ==
    {q \in {"parse_directory", "parse_text", "parse_params", "parse_report",
            "parse_data_series", "parse_data"} :
        \/ q = "parse_directory" /\ result.is_directory
        \/ q = "parse_text" /\ result.is_file_log
        \/ q = "parse_params" /\ result.is_param
        \/ q = "parse_report" /\ result.is_report
        \/ q = "parse_data_series" /\ result.is_data_series
        \/ q = "parse_data" /\ result.is_data}

\* C27: at most one of is_directory, is_file_log, is_param, is_report,
\* is_data_series, is_data holds for a type tuple, get_parser returns the
\* parser of the one that holds (None when none does), and a parameter block
\* satisfies exactly one of is_data_status, is_rf_param, is_sm_param.
C27_Exclusive ==
    pc = "classified" =>
        /\ Cardinality(ParsersByPredicate) <= 1
        /\ ParsersByPredicate = {} => result.parser = None
        /\ ParsersByPredicate # {} => ParsersByPredicate = {result.parser}
        /\ result.is_param =>
              Cardinality({k \in {"status", "rf", "sm"} :
                  \/ k = "status" /\ result.is_data_status
                  \/ k = "rf" /\ result.is_rf_param
                  \/ k = "sm" /\ result.is_sm_param}) = 1

\* a compact 1-D data block was classified: is_data alone holds
C27_Witness ==
    /\ pc = "classified"
    /\ args.type[6] = 4
    /\ result.is_data
    /\ result.parser = "parse_data"

\* ------------------------------------------------------------------------
\* The samples of the value-range check and the y of the Data record
\* ------------------------------------------------------------------------

\* y = ds['csf'] * data_block.data[:ds['npt']] of is_data_status_val_match
ValMatchSamples(data_block, data_status_block) ==
    Scale(data_status_block.val["csf"],
          PySlice(data_block.arr, 0, data_status_block.val["npt"]))

\* the pair in args is of a 1-D data block that had several type candidates,
\* so that the value-range check ran on it, and its Data record was built
ValueCheckedPair ==
    /\ pc = "data_built"
    /\ result.exc = None
    /\ is_data(args[1])
    /\ \E m \in Range(TypeMatches(block_list)) : m[1] = args[1] /\ Len(m[2]) > 1

\* C28: for a 1-D data block, compact or not, the scaled samples whose min
\* and max the value-range check compared with mny and mxy are the y array
\* of the Data record built from the pair.
C28_SameSamples ==
    ValueCheckedPair => result.val.y = ValMatchSamples(args[1], args[2])

\* what the code does: the two agree for a block that is not compact, and
\* for a compact block that has no more than npt samples
C28_SameUnlessCompactAndLonger ==
    (ValueCheckedPair
        /\ ~(is_compact_data(args[1]) /\ Len(args[1].arr) > args[2].val["npt"])) =>
        result.val.y = ValMatchSamples(args[1], args[2])

\* what the code does: for a compact block with more than npt samples the
\* check compared the first npt samples and y holds the last npt
C28_CompactTail ==
    (ValueCheckedPair /\ is_compact_data(args[1])
        /\ Len(args[1].arr) > args[2].val["npt"] /\ args[2].val["npt"] > 0) =>
        /\ result.val.y = Scale(args[2].val["csf"], LastN(args[1].arr, args[2].val["npt"]))
        /\ ValMatchSamples(args[1], args[2])
              = Scale(args[2].val["csf"], FirstN(args[1].arr, args[2].val["npt"]))
        /\ result.val.y # ValMatchSamples(args[1], args[2])

\* ------------------------------------------------------------------------
\* Specification SpecAttr: attribute lookup on an OPUSFile of file.py, one
\* frame of OPUSFile.__getattr__ per step
\* ------------------------------------------------------------------------

RecursionError == "RecursionError"

\* sys.getrecursionlimit(), scaled down: the number of nested frames of
\* __getattr__ after which the interpreter raises RecursionError
RecursionLimit == 3

MaxDataRecords == 2

\* the instance after OPUSFile.__init__ returned: the names in its __dict__,
\* the keys of self.params, and per data key the datetime of the Data record
\* (0 for None); a file that is not an OPUS file sets filepath and is_opus only
OPUSFileObject(is_opus, param_keys, datetimes) ==
    [is_opus |-> is_opus,
     dict |-> IF is_opus
              THEN {"filepath", "is_opus", "directory", "params", "rf_params", "data_keys"}
              ELSE {"filepath", "is_opus"},
     param_keys |-> param_keys,
     datetimes |-> datetimes]

AttrNames == {"is_opus", "data_keys", "params", "npt", "NPT", "zzz", "datetime"}

\* name.lower()
NameLower(name) == IF name = "NPT" THEN "npt" ELSE name

InitAttr ==
    /\ pc = "attr_new"
    /\ \E name \in AttrNames :
          \/ args = [obj |-> OPUSFileObject(FALSE, {}, <<>>), name |-> name]
          \/ \E pk \in SUBSET {"npt"} : \E dts \in SeqsUpTo({0, 1, 2}, MaxDataRecords) :
                args = [obj |-> OPUSFileObject(TRUE, pk, dts), name |-> name]
    /\ result = [stack |-> <<>>, out |-> Ok(<<>>)]
    /\ NoType /\ NoDir /\ NoPair /\ NoDecode

\* getattr(opusfile, name): found in the instance, or __getattr__(name) is called
GetAttribute ==
    /\ pc = "attr_new"
    /\ IF args.name \in args.obj.dict
       THEN /\ result' = [result EXCEPT !.out = Ok(<<"attribute", args.name>>)]
            /\ pc' = "attr_done"
       ELSE /\ result' = [result EXCEPT !.stack = <<args.name>>]
            /\ pc' = "attr_getattr"
    /\ UNCHANGED <<args, typeVars, dirVars, pairVars, decodeVars>>

\* the innermost frame of __getattr__ reads self.params, which is not in the
\* instance: __getattr__('params') is called, or the frame limit is reached
GetattrNested ==
    /\ pc = "attr_getattr"
    /\ "params" \notin args.obj.dict
    /\ IF Len(result.stack) < RecursionLimit
       THEN /\ result' = [result EXCEPT !.stack = Append(result.stack, "params")]
            /\ pc' = "attr_getattr"
       ELSE /\ result' = [result EXCEPT !.out = Raise(RecursionError)]
            /\ pc' = "attr_done"
    /\ UNCHANGED <<args, typeVars, dirVars, pairVars, decodeVars>>

\* the frame of __getattr__(name) with self.params in the instance
GetattrBody ==
    /\ pc = "attr_getattr"
    /\ "params" \in args.obj.dict
    /\ LET name == result.stack[Len(result.stack)]
           stamps == {args.obj.datetimes[i] : i \in 1..Len(args.obj.datetimes)} \ {0}
       IN result' = [result EXCEPT !.out =
             IF NameLower(name) \in args.obj.param_keys
             THEN Ok(<<"parameter", NameLower(name)>>)
             ELSE IF name = "datetime"
             THEN IF stamps = {} THEN Raise(ValueError)        \* max() of no element
                  ELSE Ok(<<"datetime", CHOOSE t \in stamps : \A u \in stamps : u <= t>>)
             ELSE Raise(AttributeError)]
    /\ pc' = "attr_done"
    /\ UNCHANGED <<args, typeVars, dirVars, pairVars, decodeVars>>

NextAttr == GetAttribute \/ GetattrNested \/ GetattrBody

SpecAttr == InitAttr /\ [][NextAttr]_vars

\* C30: attribute lookup on an OPUSFile ends with a value or with
\* AttributeError, also on an instance built from a file that is not an OPUS
\* file (params never assigned).
C30_ValueOrAttributeError ==
    pc = "attr_done" => result.out.exc \in {None, AttributeError}

\* what the code does: on an instance without params every name that is not
\* in the instance fills the frame limit and ends with RecursionError
C30_NonOpusRecursionError ==
    (pc = "attr_done" /\ ~args.obj.is_opus) =>
        IF args.name \in args.obj.dict
        THEN result.out = Ok(<<"attribute", args.name>>)
        ELSE /\ result.out.exc = RecursionError
             /\ Len(result.stack) = RecursionLimit

\* what the code does: on an instance of an OPUS file the lookup takes one
\* frame at most and ends with a value, with AttributeError, or for datetime
\* without a dated Data record with ValueError
C30_OpusLookup ==
    (pc = "attr_done" /\ args.obj.is_opus) =>
        /\ Len(result.stack) <= 1
        /\ result.out.exc \in {None, AttributeError, ValueError}
        /\ result.out.exc = ValueError => args.name = "datetime"

====
